---- MODULE Spec2Model ----
(***************************************************************************)
(* Model of the concurrent scraping and incremental-ingestion pipeline of  *)
(* bidintel: the storage upsert (models/database.py), the round-robin      *)
(* partition (_split_work) and the orchestrator run() with its workers in  *)
(* the four pooled scraper variants (public, awarded, async, parallel),    *)
(* the sequential scraper, the bulk script, the scraper control and the    *)
(* settings override of the API, the retry decorator (utils/retry.py), the *)
(* listing page requests of a crawl, and the pure functions of the         *)
(* scrapers and of the parser.                                             *)
(***************************************************************************)
EXTENDS Integers, Sequences, FiniteSets, TLC

(***************************************************************************)
(* Bounds of the model.                                                    *)
(***************************************************************************)
MaxKey == 2
MaxChildren == 1
MaxSaves == 2
MaxWorkers == 2
MaxCandidates == 3
MaxItems == 5
PageSize == 1
MaxBulkPages == 3
MaxTasks == 3
MaxRows == 3
MaxDelay == 4
MaxPage == 2
MaxLinks == 3

(***************************************************************************)
(* Values.                                                                 *)
(***************************************************************************)
\* Python None for a natural key (reference_number / award_notice_number).
NullKey == 0
Keys == 1..MaxKey
Titles == {"A", "B"}
ItemVals == {"x", "y"}
DocLists == {<<>>, <<"d">>}
Kinds == {"bid", "award"}

RECURSIVE SeqsUpTo(_, _)
SeqsUpTo(S, n) ==
    IF n = 0 THEN {<<>>}
    ELSE LET shorter == SeqsUpTo(S, n - 1)
         IN shorter \cup {Append(s, e) : s \in {t \in shorter : Len(t) = n - 1}, e \in S}

\* What the parser hands to save_bid_notice / save_awarded_contract: the
\* natural key (possibly None), one scalar field, and the two child lists.
ParsedRecords ==
    [key : {NullKey} \cup Keys, title : Titles,
     line_items : SeqsUpTo(ItemVals, MaxChildren),
     documents : DocLists]

VARIABLES
    records,        \* rows of bid_notices / awarded_contracts: [kind, id, key, title]
    line_items,     \* rows of line_items / award_line_items: [kind, parent, pos, val]
    documents,      \* rows of bid_documents / award_documents: [kind, parent, pos, val]
    next_id,        \* autoincrement surrogate id, per kind
    save_calls,     \* number of save_* calls made so far
    last_save,      \* <<>> or <<[kind, data, existed, ok, before]>>: the latest save_* call
    scraping_logs,  \* rows of scraping_logs, in insertion order
    items,          \* _split_work: the input list, <<>> before the draw
    num_chunks,     \* _split_work: the number of chunks
    chunks,         \* _split_work: the result, <<>> before the call
    variant,        \* which scraper class runs: public, awarded, async, parallel
    num_workers,    \* self.num_workers
    listing,        \* the portal's listing: the natural keys of its rows, in order
    pc,             \* the orchestrator's position in run()
    acquired,       \* browser resources acquired and not closed
    cleanup_calls,  \* number of _cleanup() invocations
    page_num,       \* the listing page the crawl is at
    total_pages,    \* _get_total_pages(): 0 stands for None
    bid_list,       \* the candidates collected by the crawl
    bids_to_scrape, \* the candidates that passed the dedup filter
    work_chunks,    \* work_chunks[w]: the list assigned to worker w
    worker_tabs,    \* number of extra tabs opened for workers and not closed
    wpc,            \* wpc[w]: worker w's position in _worker()
    widx,           \* widx[w]: index of the item worker w is at
    bid_data,       \* bid_data[w]: <<>> for None, else <<the parsed record>>
    result,         \* result[w]: worker w's tally {scraped, new_records, errors}
    results,        \* run()'s summary
    lookups,        \* number of exists() lookups made by the run
    failed_at,      \* the step whose exception reached run()'s handler, "" if none
    crawl_log,      \* the listing pages requested by the crawl: <<page, rows extracted?>>
    caption,        \* the page count read on page 1: "" before the read, "found" or "absent"
    tx,             \* tx[w]: <<>> or <<[key, existed, stage]>>, the save_* call worker w is in or has made
    running,        \* the asyncio task the event loop is running, 0 when it is idle
    db_lock,        \* the thread holding self.db_lock, 0 when it is free
    scraper_status, \* the status record of the API: running, error, current_progress, last_run
    background_tasks, \* each background task of the API: its phase, and whether a stop was accepted during it
    call,           \* the call of a pure function under study: its arguments and its result
    navigations     \* navigate() calls made for the detail page of the current record

dbVars == <<records, line_items, documents, next_id, save_calls, last_save>>
splitVars == <<items, num_chunks, chunks>>
workerVars == <<wpc, widx, bid_data, result>>
runVars == <<variant, num_workers, listing, pc, acquired, cleanup_calls, page_num,
             total_pages, bid_list, bids_to_scrape, work_chunks, worker_tabs,
             workerVars, results, scraping_logs, lookups, failed_at,
             crawl_log,
             caption,
             tx,
             running,
             db_lock,
             scraper_status,
             background_tasks,
             call,
             navigations>>
vars == <<dbVars, splitVars, runVars>>

(***************************************************************************)
(* Storage: Database.save_bid_notice / Database.save_awarded_contract.     *)
(***************************************************************************)
\* session.query(Model).filter_by(<natural key>=key): the rows of that key.
RowsOf(recs, kind, key) == {r \in recs : r.kind = kind /\ r.key = key}

\* bid_exists / awarded_contract_exists: .first() is not None.
Exists(recs, kind, key) == RowsOf(recs, kind, key) # {}

\* .first(): one row of that key.
FirstRow(recs, kind, key) == CHOOSE r \in RowsOf(recs, kind, key) : TRUE

ChildrenOf(rows, kind, parent) == {c \in rows : c.kind = kind /\ c.parent = parent}

\* A child collection as read back through the relationship: position and value.
Collection(rows, kind, parent) ==
    {<<c.pos, c.val>> : c \in ChildrenOf(rows, kind, parent)}

\* The same reading of an input list.
AsCollection(seq) == {<<i, seq[i]>> : i \in 1..Len(seq)}

NoView == [title |-> "", line_items |-> {}, documents |-> {}]

\* The stored record of a natural key with both child collections.
StoredView(recs, lis, docs, kind, key) ==
    IF ~Exists(recs, kind, key) THEN NoView
    ELSE LET r == CHOOSE x \in RowsOf(recs, kind, key) : TRUE
         IN [title |-> r.title,
             line_items |-> Collection(lis, kind, r.id),
             documents |-> Collection(docs, kind, r.id)]

InputView(data) ==
    [title |-> data.title,
     line_items |-> AsCollection(data.line_items),
     documents |-> AsCollection(data.documents)]

\* A mutant: clear() that leaves the old children in place.
ClearChildren_Keep(rows, kind, parent) == rows

\* A mutant: a relationship without delete-orphan, clear() only detaches.
ClearChildren_Detach(rows, kind, parent) ==
    {IF c.kind = kind /\ c.parent = parent THEN [c EXCEPT !.parent = 0] ELSE c : c \in rows}

\* existing.line_items.clear() / existing.documents.clear() on a relationship
\* declared cascade="all, delete-orphan": the detached children are deleted.
ClearChildren(rows, kind, parent) ==
    {c \in rows : ~(c.kind = kind /\ c.parent = parent)}

\* for item_data in ...: parent.<collection>.append(Child(**item_data))
AppendChildren(rows, kind, parent, seq) ==
    LET have == Cardinality(ChildrenOf(rows, kind, parent))
    IN rows \cup {[kind |-> kind, parent |-> parent, pos |-> have + i, val |-> seq[i]] :
                  i \in 1..Len(seq)}

\* The commit raises IntegrityError when the natural key is None (nullable=False);
\* any other storage exception is the environment's choice storage_ok = FALSE.
SaveCommits_NoConstraint(data, storage_ok) == storage_ok

SaveCommits(data, storage_ok) == storage_ok /\ data.key # NullKey

\* The body of save_bid_notice / save_awarded_contract, for record kind `kind`.
Save(kind, data, storage_ok) ==
    LET existed == Exists(records, kind, data.key)
        ok == SaveCommits(data, storage_ok)
        id == IF existed THEN FirstRow(records, kind, data.key).id ELSE next_id[kind]
    IN /\ save_calls' = save_calls + 1
       /\ last_save' = <<[kind |-> kind, data |-> data, existed |-> existed, ok |-> ok,
                          before |-> StoredView(records, line_items, documents,
                                                kind, data.key)]>>
       /\ IF ok
          THEN /\ records' =
                    IF existed
                    THEN {IF r.kind = kind /\ r.id = id
                          THEN [r EXCEPT !.title = data.title] ELSE r : r \in records}
                    ELSE records \cup
                         {[kind |-> kind, id |-> id, key |-> data.key, title |-> data.title]}
               /\ line_items' =
                    AppendChildren(IF existed THEN ClearChildren(line_items, kind, id)
                                   ELSE line_items, kind, id, data.line_items)
               /\ documents' =
                    AppendChildren(IF existed THEN ClearChildren(documents, kind, id)
                                   ELSE documents, kind, id, data.documents)
               /\ next_id' = IF existed THEN next_id
                             ELSE [next_id EXCEPT ![kind] = @ + 1]
          ELSE \* session.rollback(); return None
               UNCHANGED <<records, line_items, documents, next_id>>

\* The record kind a scraper variant stores.
KindOf(v) == IF v \in {"awarded", "bulk"} THEN "award" ELSE "bid"

\* db.save_bid_notice(bid_data), as the bid scrapers call it.
SaveBidNotice ==
    /\ KindOf(variant) = "bid"
    /\ save_calls < MaxSaves
    /\ \E data \in ParsedRecords, storage_ok \in BOOLEAN : Save("bid", data, storage_ok)
    /\ UNCHANGED <<splitVars, runVars>>

\* db.save_awarded_contract(award_data), as the awarded-contracts scraper calls it.
SaveAwardedContract ==
    /\ KindOf(variant) = "award"
    /\ save_calls < MaxSaves
    /\ \E data \in ParsedRecords, storage_ok \in BOOLEAN : Save("award", data, storage_ok)
    /\ UNCHANGED <<splitVars, runVars>>

(***************************************************************************)
(* _split_work: round-robin partition.                                     *)
(***************************************************************************)
RECURSIVE SplitFrom(_, _, _, _)
\* for idx, item in enumerate(items): chunks[idx % num_chunks].append(item)
\* (idx is 0-based in the code; sequences here are 1-based.)
SplitFrom(its, n, idx, acc) ==
    IF idx >= Len(its) THEN acc
    ELSE LET worker_id == idx % n
         IN SplitFrom(its, n, idx + 1,
                      [acc EXCEPT ![worker_id + 1] = Append(@, its[idx + 1])])

\* A mutant: contiguous blocks of floor(M/N) items, the remainder dropped.
SplitWork_Blocks(its, n) ==
    LET size == Len(its) \div n
    IN [w \in 1..n |-> SubSeq(its, (w - 1) * size + 1, w * size)]

\* A mutant: round-robin, but the item at index i goes to chunk (i + 1) mod N.
SplitWork_Shifted(its, n) ==
    LET c == SplitFrom(its, n, 0, [w \in 1..n |-> <<>>])
    IN [w \in 1..n |-> c[((w + n - 2) % n) + 1]]

SplitWork(its, n) == SplitFrom(its, n, 0, [w \in 1..n |-> <<>>])

\* The lists _split_work is applied to: items a, b, each tagged with its input
\* position so that equal items listed twice remain distinct.
SplitInputs ==
    {[i \in 1..Len(s) |-> <<i, s[i]>>] : s \in SeqsUpTo({"a", "b"}, MaxItems)}

CallSplitWork ==
    /\ chunks = <<>>
    /\ chunks' = SplitWork(items, num_chunks)
    /\ UNCHANGED <<items, num_chunks>>
    /\ UNCHANGED <<dbVars, runVars>>

(***************************************************************************)
(* The orchestrator: run() of PublicPhilGEPSScraper, AwardedContracts-      *)
(* Scraper, AsyncPhilGEPSScraper (asyncio tasks) and ParallelPhilGEPS-      *)
(* Scraper (threads).                                                      *)
(***************************************************************************)
Variants == {"public", "awarded", "async", "parallel", "sequential"}

\* The credentialed scrapers log in before the crawl.
NeedsAuth(v) == v \in {"async", "parallel", "sequential"}

\* The scrapers with a worker pool; PhilGEPSScraper (scraper.py) processes its
\* candidates in run() itself, one after the other.
Pooled(v) == v # "sequential"

\* The thread-based scraper.
Threaded(v) == v = "parallel"

\* _worker checks `if not bid_data.get('reference_number')` (resp.
\* award_notice_number) before saving: only in the two public scrapers.
ValidatesKey(v) == v \in {"public", "awarded"}

Workers == 1..num_workers

\* The background tasks the API may add.
Tasks == 1..MaxTasks

\* A task that has not been added yet.
NoTask == [phase |-> "none", stopped |-> FALSE]

\* scraper_status when the API starts (last_run: 0 for None, else the task
\* that set it).
ScraperStatusInit ==
    [running |-> FALSE, last_run |-> 0, current_progress |-> "None", error |-> "None"]

ZeroTally == [scraped |-> 0, new_records |-> 0, errors |-> 0]

\* results = {...} at the top of run(); PhilGEPSScraper has no 'workers' key.
NewResults(v, n) ==
    IF Pooled(v)
    THEN [success |-> FALSE, total_scraped |-> 0, new_records |-> 0, errors |-> 0,
          skipped |-> 0, workers |-> n]
    ELSE [success |-> FALSE, total_scraped |-> 0, new_records |-> 0, errors |-> 0,
          skipped |-> 0]

\* A mutant: the finally block does not set the duration.
WithDuration_Skip(res, d) == res

\* results['duration_seconds'] = duration, set in the finally block.
WithDuration(res, d) ==
    [k \in DOMAIN res \cup {"duration_seconds"} |->
        IF k = "duration_seconds" THEN d ELSE res[k]]

\* Where run() goes once the listing crawl has returned: the pooled scrapers
\* filter the candidates first, PhilGEPSScraper enters its per-record loop.
AfterCrawl(v) == IF Pooled(v) THEN "Dedup" ELSE "SeqLoop"

\* The acquisition order of _init_browser; _cleanup closes in the reverse order.
Resources == <<"playwright", "browser", "context", "main_page">>

Min(a, b) == IF a < b THEN a ELSE b

\* The rows of listing page p.
PageRows(p) == SubSeq(listing, (p - 1) * PageSize + 1, Min(p * PageSize, Len(listing)))

\* The total of the caption "Page n of total".
Caption == IF Len(listing) = 0 THEN 1 ELSE (Len(listing) + PageSize - 1) \div PageSize

\* A mutant: an early `return results` that skips the finally block.
AfterReturn_NoFinally == "Done"

\* try ... finally: a return inside the try block runs the finally block.
AfterReturn == "Cleanup"

\* A mutant: no handler, the exception leaves run() at once.
AfterRaise_Unhandled == "Done"

\* try ... except Exception: an exception raised inside the try block.
AfterRaise == "Except"

\* start_time = ...; results = {...}; try:
Start ==
    /\ pc = "Idle"
    /\ pc' = "BrowserInit"
    /\ results' = NewResults(variant, num_workers)
    /\ UNCHANGED <<dbVars, splitVars, variant, num_workers, listing, acquired,
                   cleanup_calls, page_num, total_pages, bid_list, bids_to_scrape,
                   work_chunks, worker_tabs, workerVars, scraping_logs, lookups,
                   failed_at, crawl_log, caption, tx, running, db_lock,
                   scraper_status, background_tasks, call, navigations>>

\* _init_browser(): acquires playwright, browser, context, main_page in that
\* order; an exception leaves the first n of them acquired and is re-raised.
InitBrowser ==
    /\ pc = "BrowserInit"
    /\ \E n \in 0..Len(Resources) :
         /\ acquired' = {Resources[i] : i \in 1..n}
         /\ pc' = IF n < Len(Resources) THEN AfterRaise
                  ELSE IF NeedsAuth(variant) THEN "Authenticating" ELSE "Navigate"
    /\ failed_at' = IF pc' = AfterRaise THEN pc ELSE failed_at
    /\ UNCHANGED <<dbVars, splitVars, variant, num_workers, listing, cleanup_calls,
                   page_num, total_pages, bid_list, bids_to_scrape, work_chunks,
                   worker_tabs, workerVars, results, scraping_logs, lookups,
                   crawl_log, caption, tx, running, db_lock, scraper_status,
                   background_tasks, call, navigations>>

\* if not login(): raise Exception("Authentication failed")
Login ==
    /\ pc = "Authenticating"
    /\ \E logged_in \in BOOLEAN : pc' = IF logged_in THEN "Navigate" ELSE AfterRaise
    /\ failed_at' = IF pc' = AfterRaise THEN pc ELSE failed_at
    /\ UNCHANGED <<dbVars, splitVars, variant, num_workers, listing, acquired,
                   cleanup_calls, page_num, total_pages, bid_list, bids_to_scrape,
                   work_chunks, worker_tabs, workerVars, results, scraping_logs, lookups,
                   crawl_log, caption, tx, running, db_lock, scraper_status,
                   background_tasks, call, navigations>>

\* main_page.goto(index URL): may raise (timeout).
Navigate ==
    /\ pc = "Navigate"
    /\ \E loaded \in BOOLEAN : pc' = IF loaded THEN "ListingCrawl" ELSE AfterRaise
    /\ page_num' = 1
    /\ failed_at' = IF pc' = AfterRaise THEN pc ELSE failed_at
    /\ UNCHANGED <<dbVars, splitVars, variant, num_workers, listing, acquired,
                   cleanup_calls, total_pages, bid_list, bids_to_scrape, work_chunks,
                   worker_tabs, workerVars, results, scraping_logs, lookups,
                   crawl_log, caption, tx, running, db_lock, scraper_status,
                   background_tasks, call, navigations>>

\* _get_all_*_with_pagination, page 1: _get_bid_list() (an empty list when it
\* fails) and _get_total_pages() (None, here 0, when the "Page n of total"
\* caption is absent or unparseable); `if total_pages and total_pages > 1`.
GetFirstPage ==
    /\ pc = "ListingCrawl"
    /\ page_num = 1
    /\ \E parsed \in BOOLEAN :
         /\ bid_list' = IF parsed THEN PageRows(1) ELSE <<>>
         /\ crawl_log' = <<<<1, parsed>>>>
    /\ \E caption_found \in BOOLEAN :
         /\ caption' = IF caption_found THEN "found" ELSE "absent"
         /\ total_pages' = IF caption_found THEN Caption ELSE 0
    /\ page_num' = 2
    /\ pc' = IF total_pages' > 1 THEN "ListingCrawl" ELSE AfterCrawl(variant)
    /\ UNCHANGED <<dbVars, splitVars, variant, num_workers, listing, acquired,
                   cleanup_calls, bids_to_scrape, work_chunks, worker_tabs,
                   workerVars, results, scraping_logs, lookups, failed_at,
                   tx, running, db_lock, scraper_status, background_tasks,
                   call, navigations>>

\* A mutant: a page that fails ends the loop.
NextPage_Abort(p, loaded) == IF loaded THEN p + 1 ELSE total_pages + 1

\* A mutant: a page that fails is requested again.
NextPage_Retry(p, loaded) == IF loaded THEN p + 1 ELSE p

\* The page the loop goes on with: `continue` in the handler of a failed page.
NextPage(p, loaded) == p + 1

\* for page_num in range(2, total_pages + 1): goto, _get_bid_list, extend; an
\* exception is logged and the loop continues.
GetNextPage ==
    /\ pc = "ListingCrawl"
    /\ page_num >= 2
    /\ page_num <= total_pages
    /\ \E loaded \in BOOLEAN :
         /\ bid_list' = IF loaded THEN bid_list \o PageRows(page_num) ELSE bid_list
         /\ crawl_log' = Append(crawl_log, <<page_num, loaded>>)
         /\ page_num' = NextPage(page_num, loaded)
    /\ pc' = IF page_num' <= total_pages THEN "ListingCrawl" ELSE AfterCrawl(variant)
    /\ UNCHANGED <<dbVars, splitVars, variant, num_workers, listing, acquired,
                   cleanup_calls, total_pages, bids_to_scrape, work_chunks,
                   worker_tabs, workerVars, results, scraping_logs, lookups,
                   failed_at, caption, tx, running, db_lock, scraper_status,
                   background_tasks, call, navigations>>

\* [s for s in bid_list if not self._is_already_scraped(s[key])]
ToScrape(list) == SelectSeq(list, LAMBDA k : ~Exists(records, KindOf(variant), k))

\* `if not bid_list: ... return results`: the parallel scraper returns without
\* setting success.
NoBids ==
    /\ pc = "Dedup"
    /\ bid_list = <<>>
    /\ results' = [results EXCEPT !.success = ~Threaded(variant)]
    /\ pc' = AfterReturn
    /\ UNCHANGED <<dbVars, splitVars, variant, num_workers, listing, acquired,
                   cleanup_calls, page_num, total_pages, bid_list, bids_to_scrape,
                   work_chunks, worker_tabs, workerVars, scraping_logs, lookups,
                   failed_at, crawl_log, caption, tx, running, db_lock,
                   scraper_status, background_tasks, call, navigations>>

\* The dedup filter; bid_exists() has no except clause, so a storage error at
\* candidate n escapes to run()'s handler with n - 1 candidates examined.
Dedup ==
    /\ pc = "Dedup"
    /\ bid_list # <<>>
    /\ \E lookups_ok \in BOOLEAN, n \in 1..Len(bid_list) :
         LET seen == IF lookups_ok THEN bid_list ELSE SubSeq(bid_list, 1, n - 1)
             todo == ToScrape(seen)
         IN /\ bids_to_scrape' = todo
            /\ lookups' = IF lookups_ok THEN Len(bid_list) ELSE n
            /\ IF ~lookups_ok
               THEN /\ results' = [results EXCEPT !.skipped = Len(seen) - Len(todo)]
                    /\ pc' = AfterRaise
               ELSE IF todo = <<>>
               THEN /\ results' = [results EXCEPT !.skipped = Len(seen) - Len(todo),
                                                  !.success = TRUE]
                    /\ pc' = AfterReturn
               ELSE /\ results' = [results EXCEPT !.skipped = Len(seen) - Len(todo)]
                    /\ pc' = "Partition"
    /\ failed_at' = IF pc' = AfterRaise THEN pc ELSE failed_at
    /\ UNCHANGED <<dbVars, splitVars, variant, num_workers, listing, acquired,
                   cleanup_calls, page_num, total_pages, bid_list, work_chunks,
                   worker_tabs, workerVars, scraping_logs, crawl_log,
                   caption, tx, running, db_lock, scraper_status,
                   background_tasks, call, navigations>>

\* work_chunks = self._split_work(bids_to_scrape, self.num_workers)
Partition ==
    /\ pc = "Partition"
    /\ work_chunks' = SplitWork(bids_to_scrape, num_workers)
    /\ pc' = "Tabs"
    /\ UNCHANGED <<dbVars, splitVars, variant, num_workers, listing, acquired,
                   cleanup_calls, page_num, total_pages, bid_list, bids_to_scrape,
                   worker_tabs, workerVars, results, scraping_logs, lookups,
                   failed_at, crawl_log, caption, tx, running, db_lock,
                   scraper_status, background_tasks, call, navigations>>

\* The tabs a run opens for its workers: the asyncio scrapers reuse main_page
\* for the first worker, the thread scraper opens one tab per worker.
TabsNeeded(v, n) == IF Threaded(v) THEN n ELSE n - 1

\* worker_pages[w]: 0 is the session's main page, k the k-th tab opened for
\* the workers.
WorkerPage(v, w) == IF Threaded(v) THEN w ELSE w - 1

\* context.new_page() per worker; an exception after n tabs escapes to run()'s
\* handler. Then the workers are started (asyncio.gather / Thread.start).
CreateTabs ==
    /\ pc = "Tabs"
    /\ \E n \in 0..TabsNeeded(variant, num_workers) :
         /\ worker_tabs' = n
         /\ IF n < TabsNeeded(variant, num_workers)
            THEN /\ pc' = AfterRaise
                 /\ UNCHANGED wpc
            ELSE /\ pc' = "Scraping"
                 /\ wpc' = [w \in Workers |-> "loop"]
    /\ failed_at' = IF pc' = AfterRaise THEN pc ELSE failed_at
    /\ UNCHANGED <<dbVars, splitVars, variant, num_workers, listing, acquired,
                   cleanup_calls, page_num, total_pages, bid_list, bids_to_scrape,
                   work_chunks, widx, bid_data, result, results, scraping_logs, lookups,
                   crawl_log, caption, tx, running, db_lock, scraper_status,
                   background_tasks, call, navigations>>

(***************************************************************************)
(* The workers: _worker() and _scrape_*_details().                         *)
(***************************************************************************)
\* What the detail page of a listed key parses to: the key itself or, for an
\* old page layout, None; one scalar field and one line item.
Parsed(key) == [key |-> key, title |-> "A", line_items |-> <<"x">>, documents |-> <<>>]

\* bid_data = await self._scrape_*_details(page, url): goto, simulate_reading,
\* content, parse; any exception in there is caught and None is returned.
ScrapeDetails(w) ==
    /\ pc = "Scraping"
    /\ wpc[w] = "loop"
    /\ widx[w] <= Len(work_chunks[w])
    /\ \E navigated \in BOOLEAN, key \in {work_chunks[w][widx[w]], NullKey} :
         bid_data' = [bid_data EXCEPT ![w] = IF navigated THEN <<Parsed(key)>> ELSE <<>>]
    /\ wpc' = [wpc EXCEPT ![w] = "process"]
    /\ UNCHANGED <<dbVars, splitVars, variant, num_workers, listing, pc, acquired,
                   cleanup_calls, page_num, total_pages, bid_list, bids_to_scrape,
                   work_chunks, worker_tabs, widx, result, results, scraping_logs, lookups,
                   failed_at, crawl_log, caption, tx, running, db_lock,
                   scraper_status, background_tasks, call, navigations>>

\* self.db.save_*(data); result['new_records'] += 1; result['scraped'] += 1:
\* the value save_* returns is not looked at.
Tally(t, saved) == [t EXCEPT !.new_records = @ + 1, !.scraped = @ + 1]

\* `if bid_data:` ... up to the rate-limiting delay: no suspension point in
\* between (the save is synchronous; the thread scraper holds db_lock).
ProcessItem(w) ==
    /\ pc = "Scraping"
    /\ wpc[w] = "process"
    /\ wpc' = [wpc EXCEPT ![w] = "delay"]
    /\ IF bid_data[w] = <<>>
       THEN \* None: nothing is saved and nothing is counted
            UNCHANGED <<dbVars, result>>
       ELSE IF ValidatesKey(variant) /\ bid_data[w][1].key = NullKey
       THEN /\ result' = [result EXCEPT ![w].errors = @ + 1]
            /\ UNCHANGED dbVars
       ELSE \E storage_ok \in BOOLEAN :
              /\ Save(KindOf(variant), bid_data[w][1], storage_ok)
              /\ result' = [result EXCEPT
                              ![w] = Tally(@, SaveCommits(bid_data[w][1], storage_ok))]
    /\ UNCHANGED <<splitVars, variant, num_workers, listing, pc, acquired,
                   cleanup_calls, page_num, total_pages, bid_list, bids_to_scrape,
                   work_chunks, worker_tabs, widx, bid_data, results, scraping_logs, lookups,
                   failed_at, crawl_log, caption, tx, running, db_lock,
                   scraper_status, background_tasks, call, navigations>>

\* except Exception: result['errors'] += 1; continue -- an exception raised
\* inside the per-item try block outside the calls that catch their own
\* (get_session() at the top of save_*, the delay).
ItemException(w) ==
    /\ pc = "Scraping"
    /\ wpc[w] = "process"
    /\ bid_data[w] # <<>>
    /\ result' = [result EXCEPT ![w].errors = @ + 1]
    /\ widx' = [widx EXCEPT ![w] = @ + 1]
    /\ wpc' = [wpc EXCEPT ![w] = "loop"]
    /\ UNCHANGED <<dbVars, splitVars, variant, num_workers, listing, pc, acquired,
                   cleanup_calls, page_num, total_pages, bid_list, bids_to_scrape,
                   work_chunks, worker_tabs, bid_data, results, scraping_logs, lookups,
                   failed_at, crawl_log, caption, tx, running, db_lock,
                   scraper_status, background_tasks, call, navigations>>

\* await asyncio.sleep(delay) / time.sleep(...): then the next item.
RateLimit(w) ==
    /\ pc = "Scraping"
    /\ wpc[w] = "delay"
    /\ widx' = [widx EXCEPT ![w] = @ + 1]
    /\ wpc' = [wpc EXCEPT ![w] = "loop"]
    /\ UNCHANGED <<dbVars, splitVars, variant, num_workers, listing, pc, acquired,
                   cleanup_calls, page_num, total_pages, bid_list, bids_to_scrape,
                   work_chunks, worker_tabs, bid_data, result, results, scraping_logs, lookups,
                   failed_at, crawl_log, caption, tx, running, db_lock,
                   scraper_status, background_tasks, call, navigations>>

\* The loop is over: return result.
WorkerReturn(w) ==
    /\ pc = "Scraping"
    /\ wpc[w] = "loop"
    /\ widx[w] > Len(work_chunks[w])
    /\ wpc' = [wpc EXCEPT ![w] = "done"]
    /\ UNCHANGED <<dbVars, splitVars, variant, num_workers, listing, pc, acquired,
                   cleanup_calls, page_num, total_pages, bid_list, bids_to_scrape,
                   work_chunks, worker_tabs, widx, bid_data, result, results,
                   scraping_logs, lookups, failed_at, crawl_log, caption, tx,
                   running, db_lock, scraper_status, background_tasks, call,
                   navigations>>

\* An exception escapes _worker (raised outside the per-item try block or
\* inside its handler): the task ends with the exception, the thread dies.
WorkerRaise(w) ==
    /\ pc = "Scraping"
    /\ wpc[w] = "loop"
    /\ wpc' = [wpc EXCEPT ![w] = "raised"]
    /\ UNCHANGED <<dbVars, splitVars, variant, num_workers, listing, pc, acquired,
                   cleanup_calls, page_num, total_pages, bid_list, bids_to_scrape,
                   work_chunks, worker_tabs, widx, bid_data, result, results,
                   scraping_logs, lookups, failed_at, crawl_log, caption, tx,
                   running, db_lock, scraper_status, background_tasks, call,
                   navigations>>

(***************************************************************************)
(* PhilGEPSScraper.run (scraper.py): the per-record loop of the sequential *)
(* scraper. widx[1] and bid_data[1] are the loop's locals; the counters    *)
(* are those of results.                                                   *)
(***************************************************************************)
\* if self._is_already_scraped(ref): results['skipped'] += 1; continue --
\* inside the per-record try block: a lookup that raises is counted as an
\* error of that record.
SeqCheck ==
    /\ pc = "SeqLoop"
    /\ widx[1] <= Len(bid_list)
    /\ lookups' = lookups + 1
    /\ \E lookup_ok \in BOOLEAN :
         IF ~lookup_ok
         THEN /\ results' = [results EXCEPT !.errors = @ + 1]
              /\ widx' = [widx EXCEPT ![1] = @ + 1]
              /\ pc' = "SeqLoop"
         ELSE IF Exists(records, KindOf(variant), bid_list[widx[1]])
         THEN /\ results' = [results EXCEPT !.skipped = @ + 1]
              /\ widx' = [widx EXCEPT ![1] = @ + 1]
              /\ pc' = "SeqLoop"
         ELSE /\ pc' = "SeqScrape"
              /\ UNCHANGED <<results, widx>>
    /\ UNCHANGED <<dbVars, splitVars, variant, num_workers, listing, acquired,
                   cleanup_calls, page_num, total_pages, bid_list, bids_to_scrape,
                   work_chunks, worker_tabs, wpc, bid_data, result, scraping_logs,
                   failed_at, crawl_log, caption, tx, running, db_lock,
                   scraper_status, background_tasks, call, navigations>>

\* @retry_on_failure(max_retries=3) on _scrape_bid_details.
DetailRetries == 3

\* The body of _scrape_bid_details, as the wrapper sees one call of it: the
\* whole body is inside try/except Exception, so a navigation that fails
\* is caught there and the call returns None.
ScrapeBidDetails(navigated) == IF navigated THEN "return" ELSE "caught"

\* The number of calls retry_on_failure's wrapper makes of a function whose
\* k-th call has the outcome outcomes[k]: "return func(...)" ends the loop
\* unless the call raised and a retry remains.
RECURSIVE RetryCalls(_, _, _)
RetryCalls(outcomes, attempt, max_retries) ==
    IF outcomes[attempt + 1] # "raise" \/ attempt >= max_retries
    THEN attempt + 1
    ELSE RetryCalls(outcomes, attempt + 1, max_retries)

\* bid_data = self._scrape_bid_details(url), through the wrapper.
SeqScrapeDetails ==
    /\ pc = "SeqScrape"
    /\ \E navigated \in [1..(DetailRetries + 1) -> BOOLEAN],
          key \in {bid_list[widx[1]], NullKey} :
         LET calls == RetryCalls([k \in 1..(DetailRetries + 1) |->
                                    ScrapeBidDetails(navigated[k])],
                                 0, DetailRetries)
         IN /\ navigations' = calls
            /\ bid_data' = [bid_data EXCEPT ![1] =
                   IF navigated[calls] THEN <<Parsed(key)>> ELSE <<>>]
    /\ pc' = "SeqProcess"
    /\ UNCHANGED <<dbVars, splitVars, variant, num_workers, listing, acquired,
                   cleanup_calls, page_num, total_pages, bid_list, bids_to_scrape,
                   work_chunks, worker_tabs, wpc, widx, result, results,
                   scraping_logs, lookups, failed_at, crawl_log, caption, tx,
                   running, db_lock, scraper_status, background_tasks, call>>

\* if bid_data: save_bid_notice(bid_data); new_records += 1; total_scraped += 1
\* -- then time.sleep(...) and the next record.
SeqProcessItem ==
    /\ pc = "SeqProcess"
    /\ IF bid_data[1] = <<>>
       THEN UNCHANGED <<dbVars, results>>
       ELSE \E storage_ok \in BOOLEAN :
              /\ Save(KindOf(variant), bid_data[1][1], storage_ok)
              /\ results' = [results EXCEPT !.new_records = @ + 1,
                                            !.total_scraped = @ + 1]
    /\ widx' = [widx EXCEPT ![1] = @ + 1]
    /\ pc' = "SeqLoop"
    /\ UNCHANGED <<splitVars, variant, num_workers, listing, acquired,
                   cleanup_calls, page_num, total_pages, bid_list, bids_to_scrape,
                   work_chunks, worker_tabs, wpc, bid_data, result, scraping_logs,
                   lookups, failed_at, crawl_log, caption, tx, running,
                   db_lock, scraper_status, background_tasks, call,
                   navigations>>

\* except Exception: results['errors'] += 1; continue
SeqItemException ==
    /\ pc = "SeqProcess"
    /\ bid_data[1] # <<>>
    /\ results' = [results EXCEPT !.errors = @ + 1]
    /\ widx' = [widx EXCEPT ![1] = @ + 1]
    /\ pc' = "SeqLoop"
    /\ UNCHANGED <<dbVars, splitVars, variant, num_workers, listing, acquired,
                   cleanup_calls, page_num, total_pages, bid_list, bids_to_scrape,
                   work_chunks, worker_tabs, wpc, bid_data, result, scraping_logs,
                   lookups, failed_at, crawl_log, caption, tx, running,
                   db_lock, scraper_status, background_tasks, call,
                   navigations>>

\* The loop is over: results['success'] = True, then the finally block.
SeqFinish ==
    /\ pc = "SeqLoop"
    /\ widx[1] > Len(bid_list)
    /\ results' = [results EXCEPT !.success = TRUE]
    /\ pc' = "Cleanup"
    /\ UNCHANGED <<dbVars, splitVars, variant, num_workers, listing, acquired,
                   cleanup_calls, page_num, total_pages, bid_list, bids_to_scrape,
                   work_chunks, worker_tabs, workerVars, scraping_logs, lookups,
                   failed_at, crawl_log, caption, tx, running, db_lock,
                   scraper_status, background_tasks, call, navigations>>

(***************************************************************************)
(* Fan-in, aggregation, cleanup and the session log.                       *)
(***************************************************************************)
Finished(w) == wpc[w] \in {"done", "raised"}

\* A mutant: the fan-in waits for every worker to return its result.
AllFinished_Returned == \A w \in Workers : wpc[w] = "done"

\* asyncio.gather(*tasks, return_exceptions=True) / thread.join() for every
\* thread: all workers have finished.
AllFinished == \A w \in Workers : Finished(w)

\* Then the worker pages are closed (errors on close are caught).
Gather ==
    /\ pc = "Scraping"
    /\ AllFinished
    /\ worker_tabs' = 0
    /\ pc' = "Aggregating"
    /\ UNCHANGED <<dbVars, splitVars, variant, num_workers, listing, acquired,
                   cleanup_calls, page_num, total_pages, bid_list, bids_to_scrape,
                   work_chunks, workerVars, results, scraping_logs, lookups,
                   failed_at, crawl_log, caption, tx, running, db_lock,
                   scraper_status, background_tasks, call, navigations>>

\* What the orchestrator holds for worker w: the asyncio scrapers get the
\* returned dict or the exception (<<>>); the thread scraper reads the dict the
\* thread filled in place, whether or not the thread died.
WorkerResult(w) ==
    IF wpc[w] = "raised" /\ ~Threaded(variant) THEN <<>> ELSE <<result[w]>>

RECURSIVE Aggregated(_, _)
\* for worker_result in worker_results: an exception adds one error, a dict
\* adds its three counters.
Aggregated(res, w) ==
    IF w = 0 THEN res
    ELSE LET prev == Aggregated(res, w - 1)
             wr == WorkerResult(w)
         IN IF wr = <<>>
            THEN [prev EXCEPT !.errors = @ + 1]
            ELSE [prev EXCEPT !.total_scraped = @ + wr[1].scraped,
                              !.new_records = @ + wr[1].new_records,
                              !.errors = @ + wr[1].errors]

\* A mutant: a run with errors is reported as failed.
AggregatedSuccess_NoErrors(res) == res.errors = 0

\* results['success'] = True after the aggregation, whatever the counters are.
AggregatedSuccess(res) == TRUE

Aggregate ==
    /\ pc = "Aggregating"
    /\ results' = LET res == Aggregated(results, num_workers)
                  IN [res EXCEPT !.success = AggregatedSuccess(res)]
    /\ pc' = "Cleanup"
    /\ UNCHANGED <<dbVars, splitVars, variant, num_workers, listing, acquired,
                   cleanup_calls, page_num, total_pages, bid_list, bids_to_scrape,
                   work_chunks, worker_tabs, workerVars, scraping_logs, lookups,
                   failed_at, crawl_log, caption, tx, running, db_lock,
                   scraper_status, background_tasks, call, navigations>>

\* except Exception as e: results['success'] = False
Except ==
    /\ pc = "Except"
    /\ results' = [results EXCEPT !.success = FALSE]
    /\ pc' = "Cleanup"
    /\ UNCHANGED <<dbVars, splitVars, variant, num_workers, listing, acquired,
                   cleanup_calls, page_num, total_pages, bid_list, bids_to_scrape,
                   work_chunks, worker_tabs, workerVars, scraping_logs, lookups,
                   failed_at, crawl_log, caption, tx, running, db_lock,
                   scraper_status, background_tasks, call, navigations>>

ClosingOrder == <<"main_page", "context", "browser", "playwright">>

\* The resources _cleanup attempts to close, in its order.
ToClose == SelectSeq(ClosingOrder, LAMBDA r : r \in acquired)

\* finally: await self._cleanup() -- one try block closing main_page, context,
\* browser, playwright in turn; the first close that raises ends the block
\* (the error is logged), leaving the later resources open.
Cleanup ==
    /\ pc = "Cleanup"
    /\ cleanup_calls' = cleanup_calls + 1
    /\ \E n \in 0..Len(ToClose) :
         /\ acquired' = acquired \ {ToClose[i] : i \in 1..n}
         /\ worker_tabs' = IF Threaded(variant) \/ "context" \notin acquired'
                           THEN 0 ELSE worker_tabs
    /\ pc' = "LogSession"
    /\ UNCHANGED <<dbVars, splitVars, variant, num_workers, listing, page_num,
                   total_pages, bid_list, bids_to_scrape, work_chunks, workerVars,
                   results, scraping_logs, lookups, failed_at, crawl_log,
                   caption, tx, running, db_lock, scraper_status,
                   background_tasks, call, navigations>>

\* _log_session builds a ScrapingLog instance, except in the thread scraper,
\* which hands save_scraping_log a plain dict.
LogEntryIsMapped(v) == ~Threaded(v)

\* self._log_session(results): save_scraping_log does session.add(entry) and
\* commits; for an entry that is no mapped instance session.add raises, the
\* error is caught, rolled back and logged, and no row is written.
LogSession ==
    /\ pc = "LogSession"
    /\ scraping_logs' =
         IF LogEntryIsMapped(variant)
         THEN Append(scraping_logs,
                     [total_scraped |-> results.total_scraped,
                      new_records |-> results.new_records,
                      errors |-> results.errors,
                      success |-> results.success])
         ELSE scraping_logs
    /\ \E duration \in 0..1 : results' = WithDuration(results, duration)
    /\ pc' = "Done"
    /\ UNCHANGED <<dbVars, splitVars, variant, num_workers, listing, acquired,
                   cleanup_calls, page_num, total_pages, bid_list, bids_to_scrape,
                   work_chunks, worker_tabs, workerVars, lookups, failed_at,
                   crawl_log, caption, tx, running, db_lock, scraper_status,
                   background_tasks, call, navigations>>

(***************************************************************************)
(* scrape_all_awarded.py: AwardedContractsScraper.run, the script that     *)
(* crawls every awarded-contracts page with one tab, in its default        *)
(* configuration (max_pages = None, start_page = 1).                       *)
(***************************************************************************)
\* The page count assumed when none is detected.
DefaultTotalPages == 67

\* The variables the script has no counterpart for.
bulkIdle == <<splitVars, variant, num_workers, listing, cleanup_calls, bids_to_scrape,
              work_chunks, worker_tabs, wpc, bid_data, result>>

\* The counters of the script (self.total_scraped, ...) and the success flag
\* of the dict it returns.
BulkCounters ==
    [success |-> FALSE, total_scraped |-> 0, new_records |-> 0, errors |-> 0,
     skipped |-> 0]

\* _detect_total_pages: the largest page number among the pagination links;
\* when that is 1 (no link found) or the page cannot be read, the default.
DetectTotalPages(max_page) == IF max_page = 1 THEN DefaultTotalPages ELSE max_page

\* async with async_playwright(): launch, new_context, new_page -- before the
\* try block: an exception leaves run() at once (playwright is stopped by the
\* context manager).
BulkLaunch ==
    /\ pc = "Idle"
    /\ results' = BulkCounters
    /\ \E launched \in BOOLEAN :
         /\ acquired' = IF launched THEN {Resources[i] : i \in 1..Len(Resources)} ELSE {}
         /\ pc' = IF launched THEN "BulkNavigate" ELSE "BulkRaised"
         /\ failed_at' = IF launched THEN failed_at ELSE "BulkLaunch"
    /\ UNCHANGED <<dbVars, bulkIdle, page_num, total_pages, bid_list, widx,
                   scraping_logs, lookups, crawl_log, caption, tx, running,
                   db_lock, scraper_status, background_tasks, call,
                   navigations>>

\* page.goto(PUBLIC_INDEX_URL) and _detect_total_pages(page); a goto that
\* raises goes to the finally block and out of run().
BulkNavigate ==
    /\ pc = "BulkNavigate"
    /\ \E loaded \in BOOLEAN, links_found \in BOOLEAN :
         IF loaded
         THEN /\ caption' = IF links_found THEN "found" ELSE "absent"
              /\ total_pages' = DetectTotalPages(IF links_found THEN Caption ELSE 1)
              /\ page_num' = 1
              /\ pc' = "BulkCrawl"
              /\ UNCHANGED failed_at
         ELSE /\ failed_at' = "BulkNavigate"
              /\ pc' = "BulkClose"
              /\ UNCHANGED <<caption, total_pages, page_num>>
    /\ UNCHANGED <<dbVars, bulkIdle, acquired, bid_list, widx, results,
                   scraping_logs, lookups, crawl_log, tx, running, db_lock,
                   scraper_status, background_tasks, call, navigations>>

\* for page_num in pages_to_scrape: goto (from page 2 on), content,
\* _extract_awards_from_page, extend; an exception is logged and the loop
\* continues. The loop is followed up to page MaxBulkPages.
BulkPage ==
    /\ pc = "BulkCrawl"
    /\ page_num <= total_pages
    /\ page_num <= MaxBulkPages
    /\ \E loaded \in BOOLEAN :
         /\ bid_list' = IF loaded THEN bid_list \o PageRows(page_num) ELSE bid_list
         /\ crawl_log' = Append(crawl_log, <<page_num, loaded>>)
    /\ page_num' = page_num + 1
    /\ pc' = IF page_num' <= total_pages THEN "BulkCrawl" ELSE "BulkItems"
    /\ UNCHANGED <<dbVars, bulkIdle, acquired, total_pages, widx, results,
                   scraping_logs, lookups, failed_at, caption, tx, running,
                   db_lock, scraper_status, background_tasks, call,
                   navigations>>

\* One iteration of `for i, award_summary in enumerate(all_awards, 1)`:
\* awarded_contract_exists -> skipped; goto with up to three attempts, parse,
\* save_awarded_contract, new_records and total_scraped; any exception of the
\* iteration is counted in errors.
BulkItem ==
    /\ pc = "BulkItems"
    /\ widx[1] <= Len(bid_list)
    /\ lookups' = lookups + 1
    /\ \E lookup_ok \in BOOLEAN, navigated \in BOOLEAN, storage_ok \in BOOLEAN,
          key \in {bid_list[widx[1]], NullKey} :
         IF ~lookup_ok
         THEN /\ results' = [results EXCEPT !.errors = @ + 1]
              /\ UNCHANGED dbVars
         ELSE IF Exists(records, "award", bid_list[widx[1]])
         THEN /\ results' = [results EXCEPT !.skipped = @ + 1]
              /\ UNCHANGED dbVars
         ELSE IF ~navigated
         THEN /\ results' = [results EXCEPT !.errors = @ + 1]
              /\ UNCHANGED dbVars
         ELSE /\ Save("award", Parsed(key), storage_ok)
              /\ results' = [results EXCEPT !.new_records = @ + 1,
                                            !.total_scraped = @ + 1]
    /\ widx' = [widx EXCEPT ![1] = @ + 1]
    /\ UNCHANGED <<bulkIdle, pc, acquired, page_num, total_pages, bid_list,
                   scraping_logs, failed_at, crawl_log, caption, tx, running,
                   db_lock, scraper_status, background_tasks, call,
                   navigations>>

\* The details loop is over: the finally block.
BulkItemsDone ==
    /\ pc = "BulkItems"
    /\ widx[1] > Len(bid_list)
    /\ pc' = "BulkClose"
    /\ UNCHANGED <<dbVars, bulkIdle, acquired, page_num, total_pages, bid_list, widx,
                   results, scraping_logs, lookups, failed_at, crawl_log, caption,
                   tx, running, db_lock, scraper_status, background_tasks,
                   call, navigations>>

\* finally: await browser.close(); then the summary with 'success': True, or
\* the pending exception leaves run().
BulkClose ==
    /\ pc = "BulkClose"
    /\ acquired' = {}
    /\ IF failed_at = ""
       THEN /\ results' = [results EXCEPT !.success = TRUE]
            /\ pc' = "BulkDone"
       ELSE /\ UNCHANGED results
            /\ pc' = "BulkRaised"
    /\ UNCHANGED <<dbVars, bulkIdle, page_num, total_pages, bid_list, widx,
                   scraping_logs, lookups, failed_at, crawl_log, caption, tx,
                   running, db_lock, scraper_status, background_tasks, call,
                   navigations>>

(***************************************************************************)
(* The save_* call of a worker, step by step, among concurrent workers:    *)
(* the lookup of the existing row, the changes made in the session, the    *)
(* commit. The asyncio workers call save_* synchronously between two       *)
(* awaits; the threads call it inside `with self.db_lock`.                 *)
(***************************************************************************)
\* The variables a save_* call leaves alone, apart from the tables.
txIdle == <<splitVars, variant, num_workers, listing, pc, acquired, cleanup_calls,
            page_num, total_pages, bid_list, bids_to_scrape, work_chunks, worker_tabs,
            workerVars, results, scraping_logs, lookups, failed_at, crawl_log, caption,
            scraper_status, background_tasks, call, navigations>>

\* Worker w is between the lookup and the commit of a save_* call.
InSave(w) == tx[w] # <<>> /\ tx[w][1].stage # "committed"

\* A mutant: the threads call save_* without taking the lock.
MayEnterSave_NoLock(w) == Threaded(variant) \/ running = w

\* Who may start a save_* call: the thread that gets db_lock; the asyncio task
\* the event loop is running.
MayEnterSave(w) == IF Threaded(variant) THEN db_lock = 0 ELSE running = w

\* Who may go on with its save_* call: any thread (the scheduler is free); the
\* asyncio task the event loop is running, which save_* never leaves.
MayStep(w) == Threaded(variant) \/ running = w

\* The event loop resumes task w (its `await self._scrape_*_details` is over).
TxResume(w) ==
    /\ ~Threaded(variant)
    /\ running = 0
    /\ ~InSave(w)
    /\ running' = w
    /\ UNCHANGED <<dbVars, txIdle, tx, db_lock>>

\* Task w reaches its next await (the delay): the event loop is free again.
TxYield(w) ==
    /\ ~Threaded(variant)
    /\ running = w
    /\ ~InSave(w)
    /\ running' = 0
    /\ UNCHANGED <<dbVars, txIdle, tx, db_lock>>

\* session.query(...).filter_by(key).first(), after entering the lock in the
\* thread scraper.
TxBegin(w) ==
    /\ save_calls + Cardinality({v \in Workers : InSave(v)}) < MaxSaves
    /\ ~InSave(w)
    /\ MayEnterSave(w)
    /\ \E key \in IF ValidatesKey(variant) THEN Keys ELSE Keys \cup {NullKey} :
         tx' = [tx EXCEPT ![w] = <<[key |-> key, stage |-> "checked",
                                    existed |-> Exists(records, KindOf(variant), key)]>>]
    /\ db_lock' = IF Threaded(variant) THEN w ELSE db_lock
    /\ UNCHANGED <<dbVars, txIdle, running>>

\* The update of the scalars and the replacement of the children, or the new
\* row, pending in the session.
TxWrite(w) ==
    /\ InSave(w)
    /\ tx[w][1].stage = "checked"
    /\ MayStep(w)
    /\ tx' = [tx EXCEPT ![w][1].stage = "written"]
    /\ UNCHANGED <<dbVars, txIdle, running, db_lock>>

\* session.commit() (or the rollback), then the lock is left.
TxCommit(w) ==
    /\ InSave(w)
    /\ tx[w][1].stage = "written"
    /\ MayStep(w)
    /\ \E storage_ok \in BOOLEAN :
         \* unique=True: the INSERT of a key that was absent at the check and
         \* has been stored since raises IntegrityError at the commit.
         Save(KindOf(variant), Parsed(tx[w][1].key),
              storage_ok /\ (tx[w][1].existed
                               = Exists(records, KindOf(variant), tx[w][1].key)))
    /\ tx' = [tx EXCEPT ![w][1].stage = "committed"]
    /\ db_lock' = IF db_lock = w THEN 0 ELSE db_lock
    /\ UNCHANGED <<txIdle, running>>

(***************************************************************************)
(* The scraper control of the API (backend_api.py): POST /api/scraper/run  *)
(* adds a background task, the task runs the public scraper, POST          *)
(* /api/scraper/stop sets the flag of the status record.                   *)
(***************************************************************************)
\* The variables the API handlers leave alone.
apiIdle == <<dbVars, splitVars, variant, num_workers, listing, pc, acquired,
             cleanup_calls, page_num, total_pages, bid_list, bids_to_scrape,
             work_chunks, worker_tabs, workerVars, results, scraping_logs, lookups,
             failed_at, crawl_log, caption, tx, running, db_lock, call,
             navigations>>

\* run_scraper: 409 when the flag is set; otherwise background_tasks.add_task.
RunScraper ==
    /\ ~scraper_status.running
    /\ \E t \in Tasks :
         /\ background_tasks[t].phase = "none"
         /\ \A u \in 1..(t - 1) : background_tasks[u].phase # "none"
         /\ background_tasks' = [background_tasks EXCEPT ![t].phase = "queued"]
    /\ UNCHANGED <<apiIdle, scraper_status>>

\* run_scraper_background up to its await of scraper.run(): the flag is set,
\* the error cleared.
BackgroundStart(t) ==
    /\ background_tasks[t].phase = "queued"
    /\ background_tasks' = [background_tasks EXCEPT ![t].phase = "running"]
    /\ scraper_status' = [scraper_status EXCEPT !.running = TRUE,
                                                !.error = "None",
                                                !.current_progress = "Running"]
    /\ UNCHANGED apiIdle

\* run_scraper_background after scraper.run(): the results are reported, or the
\* exception; the flag is cleared in the finally block.
BackgroundFinish(t) ==
    /\ background_tasks[t].phase = "running"
    /\ background_tasks' = [background_tasks EXCEPT ![t].phase = "done"]
    /\ \E raised \in BOOLEAN :
         scraper_status' =
             IF raised
             THEN [scraper_status EXCEPT !.running = FALSE,
                                         !.error = "error",
                                         !.current_progress = "Failed"]
             ELSE [scraper_status EXCEPT !.running = FALSE,
                                         !.last_run = t,
                                         !.current_progress = "Completed"]
    /\ UNCHANGED apiIdle

\* stop_scraper: 400 when the flag is clear; otherwise the flag is cleared and
\* nothing else is done. The tasks running at that moment are remembered.
StopScraper ==
    /\ scraper_status.running
    /\ scraper_status' = [scraper_status EXCEPT !.running = FALSE,
                                                !.current_progress = "Stopping"]
    /\ background_tasks' =
           [t \in Tasks |->
               IF background_tasks[t].phase = "running"
               THEN [background_tasks[t] EXCEPT !.stopped = TRUE]
               ELSE background_tasks[t]]
    /\ UNCHANGED apiIdle

(***************************************************************************)
(* Specifications.                                                         *)
(***************************************************************************)
InitDb ==
    /\ records = {}
    /\ line_items = {}
    /\ documents = {}
    /\ next_id = [k \in Kinds |-> 1]
    /\ save_calls = 0
    /\ last_save = <<>>

InitSplit ==
    /\ items = <<>>
    /\ num_chunks = 1
    /\ chunks = <<>>

\* The inputs of _split_work drawn from the bounded lists and worker counts.
InitSplitInputs ==
    /\ items \in SplitInputs
    /\ num_chunks \in 1..MaxWorkers
    /\ chunks = <<>>

\* No pure function is under study.
InitCall == call = <<>>

\* A scraper object after __init__, before run().
InitScraper ==
    /\ pc = "Idle"
    /\ acquired = {}
    /\ cleanup_calls = 0
    /\ page_num = 0
    /\ total_pages = 0
    /\ bid_list = <<>>
    /\ bids_to_scrape = <<>>
    /\ work_chunks = <<>>
    /\ worker_tabs = 0
    /\ wpc = [w \in Workers |-> "idle"]
    /\ widx = [w \in Workers |-> 1]
    /\ bid_data = [w \in Workers |-> <<>>]
    /\ result = [w \in Workers |-> ZeroTally]
    /\ results = NewResults(variant, num_workers)
    /\ scraping_logs = <<>>
    /\ lookups = 0
    /\ failed_at = ""
    /\ crawl_log = <<>>
    /\ caption = ""
    /\ tx = [w \in Workers |-> <<>>]
    /\ running = 0
    /\ db_lock = 0
    /\ scraper_status = ScraperStatusInit
    /\ background_tasks = [t \in Tasks |-> NoTask]
    /\ navigations = 0

\* The listings of the portal: the first n rows, n up to MaxCandidates, of a
\* listing that cycles through the keys, so that beyond MaxKey rows a key is
\* listed twice.
Listings == {[i \in 1..n |-> ((i - 1) % MaxKey) + 1] : n \in 0..MaxCandidates}

\* The database a run starts on: empty, or holding the record of key 1 from an
\* earlier run.
InitStored ==
    /\ line_items = {}
    /\ documents = {}
    /\ save_calls = 0
    /\ last_save = <<>>
    /\ \E stored \in BOOLEAN :
         /\ records = IF stored
                      THEN {[kind |-> KindOf(variant), id |-> 1, key |-> 1, title |-> "B"]}
                      ELSE {}
         /\ next_id = [k \in Kinds |-> IF stored /\ k = KindOf(variant) THEN 2 ELSE 1]

\* One run() of one scraper.
Init ==
    /\ variant \in Variants
    /\ num_workers \in IF Pooled(variant) THEN 1..MaxWorkers ELSE {1}
    /\ listing \in Listings
    /\ InitScraper
    /\ InitCall
    /\ InitStored
    /\ InitSplit

Next ==
    \/ Start \/ InitBrowser \/ Login \/ Navigate
    \/ GetFirstPage \/ GetNextPage
    \/ NoBids \/ Dedup \/ Partition \/ CreateTabs
    \/ \E w \in Workers : ScrapeDetails(w)
    \/ \E w \in Workers : ProcessItem(w)
    \/ \E w \in Workers : ItemException(w)
    \/ \E w \in Workers : RateLimit(w)
    \/ \E w \in Workers : WorkerReturn(w)
    \/ \E w \in Workers : WorkerRaise(w)
    \/ SeqCheck \/ SeqScrapeDetails \/ SeqProcessItem \/ SeqItemException \/ SeqFinish
    \/ Gather \/ Aggregate \/ Except \/ Cleanup \/ LogSession

Spec == Init /\ [][Next]_vars

\* One run() under the scheduling the claim on termination assumes: every
\* navigation, wait and storage call returns or times out, and the event loop
\* (the operating system, for the threads) keeps running whatever can run, so
\* that a step of the run is taken as long as one is possible.
SpecLive == Init /\ [][Next]_vars /\ WF_vars(Next)

\* The storage driven directly: the save_* calls of a bid scraper or of the
\* awarded-contracts scraper on an empty database.
InitStorage ==
    /\ variant \in {"public", "awarded"}
    /\ num_workers = 1
    /\ listing = <<>>
    /\ InitScraper
    /\ InitCall
    /\ InitDb
    /\ InitSplit

NextDb == SaveBidNotice \/ SaveAwardedContract

SpecDb == InitStorage /\ [][NextDb]_vars

NextSplit == CallSplitWork

\* One run of the scrape_all_awarded.py script.
InitBulk ==
    /\ variant = "bulk"
    /\ num_workers = 1
    /\ listing \in Listings
    /\ InitScraper
    /\ InitCall
    /\ InitStored
    /\ InitSplit

\* The workers of one pooled run at their save_* calls.
InitTx ==
    /\ variant \in {"public", "awarded", "async", "parallel"}
    /\ num_workers = MaxWorkers
    /\ listing = <<>>
    /\ InitScraper
    /\ InitCall
    /\ InitDb
    /\ InitSplit

NextTx ==
    \/ \E w \in Workers : TxResume(w)
    \/ \E w \in Workers : TxYield(w)
    \/ \E w \in Workers : TxBegin(w)
    \/ \E w \in Workers : TxWrite(w)
    \/ \E w \in Workers : TxCommit(w)

SpecTx == InitTx /\ [][NextTx]_vars

\* The API after start-up: no task, the status record of line 40.
InitApi ==
    /\ variant = "public"
    /\ num_workers = 1
    /\ listing = <<>>
    /\ InitScraper
    /\ InitCall
    /\ InitDb
    /\ InitSplit

NextApi ==
    \/ RunScraper
    \/ \E t \in Tasks : BackgroundStart(t)
    \/ \E t \in Tasks : BackgroundFinish(t)
    \/ StopScraper

SpecApi == InitApi /\ [][NextApi]_vars

NextBulk ==
    \/ BulkLaunch \/ BulkNavigate \/ BulkPage \/ BulkItem \/ BulkItemsDone \/ BulkClose

SpecBulk == InitBulk /\ [][NextBulk]_vars

\* _split_work applied to the drawn inputs; no run, no storage.
InitPartition ==
    /\ variant = "public"
    /\ num_workers = 1
    /\ listing = <<>>
    /\ InitScraper
    /\ InitCall
    /\ InitDb
    /\ InitSplitInputs

SpecSplit == InitPartition /\ [][NextSplit]_vars

(***************************************************************************)
(* The pure functions of the scrapers and of the parser. A specification   *)
(* of this part draws the arguments of one call; its action applies the    *)
(* function and records what it returns.                                   *)
(***************************************************************************)
\* The variables a pure function leaves alone.
pureIdle == <<dbVars, splitVars, variant, num_workers, listing, pc, acquired,
              cleanup_calls, page_num, total_pages, bid_list, bids_to_scrape,
              work_chunks, worker_tabs, workerVars, results, scraping_logs, lookups,
              failed_at, crawl_log, caption, tx, running, db_lock, scraper_status,
              background_tasks, navigations>>

\* Python None where a string is expected.
None == "None"

(***************************************************************************)
(* The extraction of a listing page: _get_bid_list, _get_award_list (by    *)
(* the position of the cell in its row), parse_bid_list_page (by the       *)
(* data-label of the cell).                                                *)
(***************************************************************************)
\* The columns of a listing table, left to right. The first one holds the
\* natural key inside a link.
ListingColumns(fn) ==
    IF fn = "_get_award_list" THEN <<"key", "bid_ref", "title">>
    ELSE <<"key", "title", "classification">>

Extractors == {"_get_bid_list", "_get_award_list", "parse_bid_list_page"}

\* A row of a listing page: which of the columns it has a cell for, and whether
\* its key cell holds a link.
ListingRows ==
    {row \in [present : SUBSET (1..3), link : BOOLEAN] : row.link => 1 \in row.present}

\* The cells of a row, left to right, as column numbers.
Cells(row) == SelectSeq(<<1, 2, 3>>, LAMBDA c : c \in row.present)

\* The text of the cell of column c in the i-th row.
CellText(fn, i, c) == <<ListingColumns(fn)[c], i>>

\* row.select_one('td:nth-of-type(n)'): <<>> for no match, else <<column>>.
NthOfType(row, n) == IF n <= Len(Cells(row)) THEN <<Cells(row)[n]>> ELSE <<>>

\* The position at which the scrapers look for the title.
TitlePosition(fn) == IF fn = "_get_award_list" THEN 3 ELSE 2

\* The body of the loop of _get_bid_list / _get_award_list for the i-th row:
\* <<>> when the row is skipped, else <<summary>>.
SummaryByPosition(fn, i, row) ==
    LET first == NthOfType(row, 1)
        title_cell == NthOfType(row, TitlePosition(fn))
    IN IF first = <<>> \/ first[1] # 1 \/ ~row.link THEN <<>>
       ELSE <<[key |-> CellText(fn, i, 1),
               title |-> IF title_cell = <<>> THEN "" ELSE CellText(fn, i, title_cell[1])]>>

\* The body of the loop of parse_bid_list_page for the i-th row.
SummaryByLabel(fn, i, row) ==
    IF 1 \notin row.present \/ ~row.link THEN <<>>
    ELSE <<[key |-> CellText(fn, i, 1),
            title |-> IF 2 \in row.present THEN CellText(fn, i, 2) ELSE None]>>

RowSummary(fn, i, row) ==
    IF fn = "parse_bid_list_page" THEN SummaryByLabel(fn, i, row)
    ELSE SummaryByPosition(fn, i, row)

RECURSIVE ExtractFrom(_, _, _)
\* The summaries of rows i.. of the page, in row order.
ExtractFrom(fn, rows, i) ==
    IF i > Len(rows) THEN <<>>
    ELSE RowSummary(fn, i, rows[i]) \o ExtractFrom(fn, rows, i + 1)

\* The listing extractor fn on a page.
Extract(fn, rows) == ExtractFrom(fn, rows, 1)

\* The pages an extractor is given.
ListingPages == UNION {[1..n -> ListingRows] : n \in 0..MaxRows}

InitExtract ==
    /\ call \in [fn : Extractors, rows : ListingPages, ret : {<<>>}]
    /\ variant = "public"
    /\ num_workers = 1
    /\ listing = <<>>
    /\ InitScraper
    /\ InitDb
    /\ InitSplit

\* The extractor returns.
ExtractReturns ==
    /\ call.ret = <<>>
    /\ call' = [call EXCEPT !.ret = <<Extract(call.fn, call.rows)>>]
    /\ UNCHANGED pureIdle

SpecExtract == InitExtract /\ [][ExtractReturns]_vars

(***************************************************************************)
(* HumanBehavior.random_delay (stealth.py). Durations are counted in       *)
(* tenths of a second.                                                     *)
(***************************************************************************)
Max(a, b) == IF a > b THEN a ELSE b

Durations == 0..MaxDelay

\* What random.gauss may return: any number, below, within or above the range.
Draws == (0 - 2)..(MaxDelay + 2)

\* A mutant: the draw is returned as it is.
RandomDelay_NoClamp(min_seconds, max_seconds, delay) == delay

\* max(min_seconds, min(max_seconds, delay)) for the drawn delay.
RandomDelay(min_seconds, max_seconds, delay) ==
    Max(min_seconds, Min(max_seconds, delay))

InitDelay ==
    /\ call \in [min_seconds : Durations, max_seconds : Durations, ret : {<<>>}]
    /\ variant = "public"
    /\ num_workers = 1
    /\ listing = <<>>
    /\ InitScraper
    /\ InitDb
    /\ InitSplit

\* random_delay draws and returns.
DelayReturns ==
    /\ call.ret = <<>>
    /\ \E delay \in Draws :
         call' = [call EXCEPT !.ret =
                     <<[draw |-> delay,
                        delay |-> RandomDelay(call.min_seconds, call.max_seconds, delay)]>>]
    /\ UNCHANGED pureIdle

SpecDelay == InitDelay /\ [][DelayReturns]_vars

(***************************************************************************)
(* _build_pagination_url (public_scraper.py, awarded_contracts_scraper.py):*)
(* the query string, as the sequence of its name=value pairs.              *)
(***************************************************************************)
Builders == {"public", "awarded"}

\* The values a filter setting may hold; "" is the default of an unset one.
FilterValues == {"", "2", "13 Nov"}

\* The filter settings, in the order the builder consults them.
Filters == <<"FILTER_PUBLISH_DATE_FROM", "FILTER_PUBLISH_DATE_TO",
             "FILTER_CLASSIFICATION", "FILTER_BUSINESS_CATEGORY">>

\* The parameter a filter setting is sent as.
ParamName(f) ==
    CASE f = "FILTER_PUBLISH_DATE_FROM" -> "searchPublishDateFrom"
      [] f = "FILTER_PUBLISH_DATE_TO" -> "searchPublishDateTo"
      [] f = "FILTER_CLASSIFICATION" -> "searchClassification"
      [] f = "FILTER_BUSINESS_CATEGORY" -> "searchBussinessCategory"

\* The sort order each index is asked for.
Direction(builder) ==
    IF builder = "awarded" THEN "Awards.award_date+desc"
    ELSE "Tenders.tender_start_datetime+desc"

\* quote_plus, as urlencode applies it to a value: '+' becomes %2B, a space '+'.
QuotePlus(v) ==
    CASE v = "Awards.award_date+desc" -> "Awards.award_date%2Bdesc"
      [] v = "Tenders.tender_start_datetime+desc" -> "Tenders.tender_start_datetime%2Bdesc"
      [] v = "13 Nov" -> "13+Nov"
      [] OTHER -> v

\* A mutant: every filter parameter is appended, configured or not.
Configured_Always(value) == TRUE

\* `if settings.FILTER_...:` -- the setting is a non-empty string.
Configured(value) == value # ""

RECURSIVE FilterParams(_, _)
\* The pairs of the filters i.. that are configured.
FilterParams(filter_settings, i) ==
    IF i > Len(Filters) THEN <<>>
    ELSE (IF Configured(filter_settings[Filters[i]])
          THEN <<[name |-> ParamName(Filters[i]),
                  value |-> QuotePlus(filter_settings[Filters[i]])]>>
          ELSE <<>>) \o FilterParams(filter_settings, i + 1)

\* urlencode(params) of _build_pagination_url(p).
BuildPaginationUrl(builder, p, filter_settings) ==
    <<[name |-> "page", value |-> QuotePlus(ToString(p))],
      [name |-> "direction", value |-> QuotePlus(Direction(builder))]>>
    \o FilterParams(filter_settings, 1)

InitUrl ==
    /\ call \in [builder : Builders, page_num : 1..MaxPage,
                 settings : [{Filters[i] : i \in 1..Len(Filters)} -> FilterValues],
                 ret : {<<>>}]
    /\ variant = "public"
    /\ num_workers = 1
    /\ listing = <<>>
    /\ InitScraper
    /\ InitDb
    /\ InitSplit

\* _build_pagination_url returns.
UrlReturns ==
    /\ call.ret = <<>>
    /\ call' = [call EXCEPT !.ret =
                   <<BuildPaginationUrl(call.builder, call.page_num, call.settings)>>]
    /\ UNCHANGED pureIdle

SpecUrl == InitUrl /\ [][UrlReturns]_vars

(***************************************************************************)
(* PhilGEPSParser._parse_date (parser.py). A date string is given by the   *)
(* layout it is written in and by the numbers it shows; a datetime by its  *)
(* year, month, day, hour (0..23) and minute.                              *)
(***************************************************************************)
\* The formats, in the order _parse_date tries them.
Formats == <<"%d-%b-%Y %I:%M %p", "%d-%b-%Y", "%Y-%m-%d %H:%M:%S", "%Y-%m-%d", "%m/%d/%Y">>

\* The layouts of a string: the ones of the formats, a text that is no date,
\* the empty string, and Python None.
Layouts == {Formats[i] : i \in 1..Len(Formats)} \cup {"text", "", None}

TimedLayouts == {"%d-%b-%Y %I:%M %p", "%Y-%m-%d %H:%M:%S"}

\* The strings _parse_date is called with: November 2025, a day that exists
\* or not, an hour and a minute where the layout has them, AM/PM where the
\* layout has it, and possibly blanks around.
DateStrings ==
    {s \in [layout : Layouts, day : {13, 31}, hour : {0, 8, 12, 13}, minute : {0, 30},
            meridiem : {"", "AM", "PM"}, padded : BOOLEAN] :
        /\ s.layout = None => ~s.padded
        /\ s.layout \in {"text", "", None} => s.day = 13
        /\ s.layout \notin TimedLayouts => s.hour = 0 /\ s.minute = 0
        /\ s.meridiem # "" <=> s.layout = "%d-%b-%Y %I:%M %p"}

\* date_string.strip()
Strip(s) == [s EXCEPT !.padded = FALSE]

\* A mutant: 12 o'clock is left as it is.
Hour24_Keep12(hour, meridiem) == IF meridiem = "PM" /\ hour < 12 THEN hour + 12 ELSE hour

\* The hour of the day %I and %p stand for.
Hour24(hour, meridiem) == (hour % 12) + (IF meridiem = "PM" THEN 12 ELSE 0)

\* datetime.strptime(s, fmt): <<>> for ValueError, else <<datetime>>.
Strptime(s, fmt) ==
    IF \/ s.layout # fmt
       \/ s.padded
       \/ s.day \notin 1..30
       \/ fmt = "%d-%b-%Y %I:%M %p" /\ s.hour \notin 1..12
       \/ s.hour \notin 0..23
    THEN <<>>
    ELSE <<[year |-> 2025, month |-> 11, day |-> s.day,
            hour |-> IF fmt = "%d-%b-%Y %I:%M %p" THEN Hour24(s.hour, s.meridiem)
                     ELSE s.hour,
            minute |-> s.minute]>>

RECURSIVE TryFormats(_, _)
\* The loop over the formats, from the i-th on: the first result, <<>> (None)
\* when every format raised ValueError.
TryFormats(s, i) ==
    IF i > Len(Formats) THEN <<>>
    ELSE IF Strptime(s, Formats[i]) # <<>> THEN Strptime(s, Formats[i])
    ELSE TryFormats(s, i + 1)

\* _parse_date(date_string): <<>> for None, else <<datetime>>.
ParseDate(s) ==
    IF s.layout = None \/ (s.layout = "" /\ ~s.padded) THEN <<>>
    ELSE TryFormats(Strip(s), 1)

InitDate ==
    /\ call \in [date_string : DateStrings, ret : {<<>>}]
    /\ variant = "public"
    /\ num_workers = 1
    /\ listing = <<>>
    /\ InitScraper
    /\ InitDb
    /\ InitSplit

\* _parse_date returns.
DateReturns ==
    /\ call.ret = <<>>
    /\ call' = [call EXCEPT !.ret = <<ParseDate(call.date_string)>>]
    /\ UNCHANGED pureIdle

SpecDate == InitDate /\ [][DateReturns]_vars

(***************************************************************************)
(* PhilGEPSParser.parse_document_links (parser.py): the links of a page,   *)
(* in document order, each given by its href.                              *)
(***************************************************************************)
\* The hrefs of the links of a documents page.
Hrefs == {"/portal_documents/bid_notice_1/a.pdf", "https://cdn.example/b.PDF",
          "/portal_documents/bid_notice_1/c.pdf?v=1", "/files/d.pdf?v=1",
          "/portal_documents/bid_notice_1/e.docx", "/Indexes/index"}

\* re.compile(r'\.pdf$', re.IGNORECASE) finds a match in the href.
EndsWithPdf(href) ==
    href \in {"/portal_documents/bid_notice_1/a.pdf", "https://cdn.example/b.PDF"}

\* re.compile(r'portal_documents.*\.pdf', re.IGNORECASE) finds a match.
PortalDocumentsPdf(href) ==
    href \in {"/portal_documents/bid_notice_1/a.pdf",
              "/portal_documents/bid_notice_1/c.pdf?v=1"}

\* '.pdf' in href.lower()
ContainsPdf(href) == href \notin {"/portal_documents/bid_notice_1/e.docx", "/Indexes/index"}

\* href.startswith('/')
IsRelative(href) == href \notin {"https://cdn.example/b.PDF"}

\* The document a selected link is turned into: its URL made absolute.
Document(href) ==
    [document_url |-> IF IsRelative(href) THEN <<"https://philgeps.gov.ph", href>>
                      ELSE <<href>>]

\* A mutant: the next strategy is consulted whatever was found so far.
Fallback_Always(pdf_links) == TRUE

\* `if len(pdf_links) == 0:` before strategies 2 and 3.
Fallback(pdf_links) == Len(pdf_links) = 0

\* parse_document_links on the links of the page.
ParseDocumentLinks(links) ==
    LET strategy1 == SelectSeq(links, EndsWithPdf)
        strategy2 == IF Fallback(strategy1)
                     THEN strategy1 \o SelectSeq(links, PortalDocumentsPdf)
                     ELSE strategy1
        strategy3 == IF Fallback(strategy2)
                     THEN strategy2 \o SelectSeq(links, ContainsPdf)
                     ELSE strategy2
    IN [i \in 1..Len(strategy3) |-> Document(strategy3[i])]

InitDocuments ==
    /\ call \in [links : SeqsUpTo(Hrefs, MaxLinks), ret : {<<>>}]
    /\ variant = "public"
    /\ num_workers = 1
    /\ listing = <<>>
    /\ InitScraper
    /\ InitDb
    /\ InitSplit

\* parse_document_links returns.
DocumentsReturn ==
    /\ call.ret = <<>>
    /\ call' = [call EXCEPT !.ret = <<ParseDocumentLinks(call.links)>>]
    /\ UNCHANGED pureIdle

SpecDocuments == InitDocuments /\ [][DocumentsReturn]_vars

(***************************************************************************)
(* PhilGEPSParser.parse_bid_notice / parse_awarded_contract (parser.py) on *)
(* a detail page, given by what it shows for the labels the parser looks   *)
(* for: the natural key, the status, the approved budget, the title, the   *)
(* line items.                                                             *)
(***************************************************************************)
\* The label of the natural key ("Notice Reference Number", "Award Notice
\* Number"): absent, or its text after the name.
KeyLabels == {"absent", " :7297", " :", " : 7297", " 7297"}

\* The text after the "Approved Budget" label, "absent" without the label.
BudgetTexts == {"absent", "70,000.00", "1.2.3", "TBA"}

DetailPages ==
    [kind : Kinds, key_label : KeyLabels, status : {"absent", "Closed"},
     budget : BudgetTexts, title : {"absent", "A"}, line_item_rows : 0..1]

\* re.search(r':(\d+)', text) on the label of a bid notice: <<>> without a
\* match, else <<group 1>>.
ColonNumber(key_label) == IF key_label = " :7297" THEN <<"7297">> ELSE <<>>

\* re.search(r'(\d+)', text) on the label of an award notice.
AnyNumber(key_label) ==
    IF key_label \in {" :7297", " : 7297", " 7297"} THEN <<"7297">> ELSE <<>>

\* _extract_reference_number / _extract_award_notice_number: None when the
\* label is not found or the pattern does not match.
ExtractKey(kind, key_label) ==
    LET match == IF kind = "bid" THEN ColonNumber(key_label) ELSE AnyNumber(key_label)
    IN IF key_label = "absent" \/ match = <<>> THEN None ELSE match[1]

\* float(re.sub(r'[^\d.]', '', text)): <<>> for ValueError, else <<number>>.
ToFloat(text) == IF text = "70,000.00" THEN <<70000>> ELSE <<>>

\* _extract_budget: None without the label, and None when float() raises.
ExtractBudget(text) ==
    IF text = "absent" \/ ToFloat(text) = <<>> THEN <<>> ELSE ToFloat(text)

\* _extract_status: the text after the label, "Published" without it.
ExtractStatus(text) == IF text = "absent" THEN "Published" ELSE text

\* _extract_title
ExtractTitle(text) == IF text = "absent" THEN None ELSE text

\* _extract_line_items: the rows after the "Line Item Details" header, an
\* empty list without it.
ExtractLineItems(n) == [i \in 1..n |-> [item_number |-> i]]

\* parse_bid_notice / parse_awarded_contract: the dict built from the
\* extractors; none of them lets an exception out, so the `raise` of the
\* handler is not reached.
ParseDetail(page) ==
    IF page.kind = "bid"
    THEN [reference_number |-> ExtractKey("bid", page.key_label),
          status |-> ExtractStatus(page.status),
          approved_budget |-> ExtractBudget(page.budget),
          title |-> ExtractTitle(page.title),
          line_items |-> ExtractLineItems(page.line_item_rows)]
    ELSE [award_notice_number |-> ExtractKey("award", page.key_label),
          approved_budget |-> ExtractBudget(page.budget),
          award_title |-> ExtractTitle(page.title),
          line_items |-> ExtractLineItems(page.line_item_rows)]

InitDetail ==
    /\ call \in [page : DetailPages, ret : {<<>>}]
    /\ variant = "public"
    /\ num_workers = 1
    /\ listing = <<>>
    /\ InitScraper
    /\ InitDb
    /\ InitSplit

\* The parser returns.
DetailReturns ==
    /\ call.ret = <<>>
    /\ call' = [call EXCEPT !.ret = <<ParseDetail(call.page)>>]
    /\ UNCHANGED pureIdle

SpecDetail == InitDetail /\ [][DetailReturns]_vars

(***************************************************************************)
(* retry_on_failure (utils/retry.py): the wrapper around a function, one   *)
(* step per iteration of its loop.  The k-th call of the wrapped function  *)
(* returns the value k or raises the exception k.                          *)
(***************************************************************************)
MaxRetries == 3

RetryDelays == 1..2

RetryBackoffs == 1..3

\* current_delay *= backoff
Backoff_Constant(current_delay, backoff) == current_delay

Backoff(current_delay, backoff) == current_delay * backoff

InitRetry ==
    /\ call \in [max_retries : 0..MaxRetries, delay : RetryDelays,
                 backoff : RetryBackoffs,
                 attempt : {0}, current_delay : RetryDelays,
                 last_exception : {0}, outcomes : {<<>>}, waits : {<<>>},
                 ret : {<<>>}]
    /\ call.current_delay = call.delay
    /\ variant = "public"
    /\ num_workers = 1
    /\ listing = <<>>
    /\ InitScraper
    /\ InitDb
    /\ InitSplit

\* One iteration of "for attempt in range(max_retries + 1)": the call
\* returns, or raises and is followed by the sleep when a retry remains.
RetryAttempt ==
    /\ call.ret = <<>>
    /\ call.attempt <= call.max_retries
    /\ \E raised \in BOOLEAN :
         LET n == Len(call.outcomes) + 1 IN
         IF ~raised
           THEN call' = [call EXCEPT !.outcomes = Append(@, "return"),
                                     !.ret = <<[kind |-> "return", value |-> n]>>]
           ELSE IF call.attempt < call.max_retries
                  THEN call' = [call EXCEPT
                                  !.outcomes = Append(@, "raise"),
                                  !.last_exception = n,
                                  !.waits = Append(@, call.current_delay),
                                  !.current_delay = Backoff(@, call.backoff),
                                  !.attempt = @ + 1]
                  ELSE call' = [call EXCEPT
                                  !.outcomes = Append(@, "raise"),
                                  !.last_exception = n,
                                  !.attempt = @ + 1]
    /\ UNCHANGED pureIdle

\* "raise last_exception" after the loop.
RetryExhausted ==
    /\ call.ret = <<>>
    /\ call.attempt > call.max_retries
    /\ call' = [call EXCEPT !.ret = <<[kind |-> "raise",
                                       value |-> call.last_exception]>>]
    /\ UNCHANGED pureIdle

NextRetry == RetryAttempt \/ RetryExhausted

SpecRetry == InitRetry /\ [][NextRetry]_vars


(***************************************************************************)
(* The listing page requests of one crawl of the public scraper            *)
(* (public_scraper.py): run() opens the index, _get_all_bids_with_         *)
(* pagination reads page 1 from it and requests the pages 2..total_pages.  *)
(* A request is the query string of its URL, as BuildPaginationUrl gives   *)
(* it; call.page_num is the next page to request, 1 before the crawl.      *)
(***************************************************************************)
\* The query string of PUBLIC_INDEX_URL as run() opens it: none.
IndexQuery == <<>>

InitPages ==
    /\ call \in [settings : [{Filters[i] : i \in 1..Len(Filters)} -> FilterValues],
                 total_pages : 1..(MaxPage + 1), page_num : {1},
                 requests : {<<>>}, ret : {<<>>}]
    /\ variant = "public"
    /\ num_workers = 1
    /\ listing = <<>>
    /\ InitScraper
    /\ InitDb
    /\ InitSplit

\* await self.main_page.goto(self.PUBLIC_INDEX_URL, ...): the page the first
\* _get_bid_list() and _get_total_pages() read.
GotoIndex ==
    /\ call.ret = <<>>
    /\ call.page_num = 1
    /\ call' = [call EXCEPT !.requests = Append(@, IndexQuery), !.page_num = 2]
    /\ UNCHANGED pureIdle

\* for page_num in range(2, total_pages + 1):
\*     await self.main_page.goto(self._build_pagination_url(page_num), ...)
GotoPage ==
    /\ call.ret = <<>>
    /\ call.page_num >= 2
    /\ call.page_num <= call.total_pages
    /\ call' = [call EXCEPT
                  !.requests = Append(@, BuildPaginationUrl("public", call.page_num,
                                                            call.settings)),
                  !.page_num = @ + 1]
    /\ UNCHANGED pureIdle

\* return all_bids
PagesReturn ==
    /\ call.ret = <<>>
    /\ call.page_num > call.total_pages
    /\ call' = [call EXCEPT !.ret = <<Len(call.requests)>>]
    /\ UNCHANGED pureIdle

NextPages == GotoIndex \/ GotoPage \/ PagesReturn

SpecPages == InitPages /\ [][NextPages]_vars


(***************************************************************************)
(* _run_scraper_async (backend_api.py): the run's configuration overrides  *)
(* the global settings, the scraper runs, the finally block restores them. *)
(* call.config maps the settings the request overrides to their values,    *)
(* call.before is the settings as they were when the call began.           *)
(***************************************************************************)
\* The settings a request may override, in the order the code consults them.
Overridable == <<"FILTER_PUBLISH_DATE_FROM", "FILTER_PUBLISH_DATE_TO",
                 "FILTER_CLASSIFICATION", "FILTER_BUSINESS_CATEGORY",
                 "HEADLESS_MODE", "SCRAPE_INTERVAL_MINUTES",
                 "REQUEST_DELAY_SECONDS", "MAX_RETRIES">>

SettingNames == {Overridable[i] : i \in 1..Len(Overridable)}

\* The values a setting has before the call, and those a request gives.
EnvValues == {"env", "local"}

RequestValues == {"request"}

\* The configurations of a request: any subset of the overrides.
Configs == UNION {[names -> RequestValues] : names \in SUBSET SettingNames}

RECURSIVE Override(_, _, _, _)
\* if "<name>" in ...: original_values[K] = settings.K; settings.K = value
\* -- for the settings i.. in turn; the pair <<settings, original_values>>.
Override(config, current, original_values, i) ==
    IF i > Len(Overridable) THEN <<current, original_values>>
    ELSE LET name == Overridable[i] IN
         IF name \in DOMAIN config
         THEN Override(config,
                       [current EXCEPT ![name] = config[name]],
                       [n \in DOMAIN original_values \cup {name} |->
                           IF n = name THEN current[name] ELSE original_values[n]],
                       i + 1)
         ELSE Override(config, current, original_values, i + 1)

\* A mutant: nothing is put back.
Restore_Nothing(current, original_values) == current

\* for key, value in original_values.items(): setattr(settings, key, value)
Restore(current, original_values) ==
    [n \in DOMAIN current |->
        IF n \in DOMAIN original_values THEN original_values[n] ELSE current[n]]

InitSettings ==
    /\ call \in [config : Configs, settings : [SettingNames -> EnvValues],
                 before : [SettingNames -> EnvValues],
                 original_values : {<<>>}, stage : {"apply"}, raised : {FALSE},
                 ret : {<<>>}]
    /\ call.before = call.settings
    /\ variant = "public"
    /\ num_workers = 1
    /\ listing = <<>>
    /\ InitScraper
    /\ InitDb
    /\ InitSplit

\* `if config:` ... the overrides are applied; the conversion of "workers"
\* at the end of the block may raise.
ApplyConfig ==
    /\ call.ret = <<>>
    /\ call.stage = "apply"
    /\ \E raised \in BOOLEAN :
         LET applied == Override(call.config, call.settings, call.original_values, 1)
         IN call' = [call EXCEPT !.settings = applied[1],
                                 !.original_values = applied[2],
                                 !.raised = raised,
                                 !.stage = IF raised THEN "finally" ELSE "run"]
    /\ UNCHANGED pureIdle

\* results = await scraper.run(): it returns, or an exception comes out.
AwaitRun ==
    /\ call.ret = <<>>
    /\ call.stage = "run"
    /\ \E raised \in BOOLEAN :
         call' = [call EXCEPT !.raised = raised, !.stage = "finally"]
    /\ UNCHANGED pureIdle

\* finally: the recorded values are put back; the call returns or raises.
RestoreSettings ==
    /\ call.ret = <<>>
    /\ call.stage = "finally"
    /\ call' = [call EXCEPT !.settings = Restore(call.settings, call.original_values),
                            !.stage = "over",
                            !.ret = <<IF call.raised THEN "raise" ELSE "return">>]
    /\ UNCHANGED pureIdle

NextSettings == ApplyConfig \/ AwaitRun \/ RestoreSettings

SpecSettings == InitSettings /\ [][NextSettings]_vars


(***************************************************************************)
(* Claims on the run (Spec).                                               *)
(***************************************************************************)
Tables == <<records, line_items, documents>>

\* Worker w completes its handling of the item it has fetched.
Handles(w) == wpc[w] = "process" /\ wpc'[w] # "process"

\* C1: whenever the parser returned a record whose natural key is null, the
\* worker persists nothing and adds one to errors, leaving scraped and
\* new_records as they were -- in every scraper variant.
C1_NullKeyRejected ==
    [][\A w \in Workers :
         (Handles(w) /\ bid_data[w] # <<>> /\ bid_data[w][1].key = NullKey)
         => /\ Tables' = Tables
            /\ result'[w] = [result[w] EXCEPT !.errors = @ + 1]]_vars

RECURSIVE SumTally(_, _)
\* The sum of one counter of the tallies of the workers in S.
SumTally(field, S) ==
    IF S = {} THEN 0
    ELSE LET w == CHOOSE x \in S : TRUE
         IN result[w][field] + SumTally(field, S \ {w})

Returned == {w \in Workers : wpc[w] = "done"}
Raised == {w \in Workers : wpc[w] = "raised"}

\* The workers were started and run() is past its aggregation step.
AfterAggregation == wpc[1] # "idle" /\ pc \in {"Cleanup", "LogSession", "Done"}

\* C5: aggregation starts only after every worker has finished; every worker
\* that raised adds exactly one to the aggregate errors (on top of what it may
\* have tallied), and the tallies of the workers that returned are all in the
\* run summary.
C5_FanInIsolation ==
    /\ (pc = "Aggregating" \/ AfterAggregation) => \A w \in Workers : Finished(w)
    /\ AfterAggregation
       => /\ results.errors - SumTally("errors", Returned)
               \in {Cardinality(Raised), Cardinality(Raised) + SumTally("errors", Raised)}
          /\ results.total_scraped >= SumTally("scraped", Returned)
          /\ results.new_records >= SumTally("new_records", Returned)

\* C6: what a worker had tallied before it raised is still counted in the run
\* summary's total_scraped and new_records.
C6_PartialProgressCounted ==
    AfterAggregation
    => /\ results.total_scraped = SumTally("scraped", Workers)
       /\ results.new_records = SumTally("new_records", Workers)

\* C7: when fetching an item's detail page failed (bid_data is None) the worker
\* adds one to errors for that item, persists nothing and goes on with its list.
C7_NavFailureCounted ==
    [][\A w \in Workers :
         (Handles(w) /\ bid_data[w] = <<>>)
         => /\ Tables' = Tables
            /\ result'[w] = [result[w] EXCEPT !.errors = @ + 1]
            /\ wpc'[w] \in {"delay", "loop"}]_vars

\* C8: when save_* fails (rollback, None) nothing is persisted, the worker
\* counts the item as an error and not as scraped or new, and goes on.
C8_StorageFailureCounted ==
    [][\A w \in Workers :
         (Handles(w) /\ save_calls' = save_calls + 1 /\ ~last_save'[1].ok)
         => /\ Tables' = Tables
            /\ result'[w] = [result[w] EXCEPT !.errors = @ + 1]
            /\ wpc'[w] \in {"delay", "loop"}]_vars

\* C9: on every path through run() _cleanup is invoked exactly once before
\* run() returns, and not before the finally block is reached.
C9_CleanupOnce ==
    /\ pc = "Done" => cleanup_calls = 1
    /\ pc \notin {"LogSession", "Done"} => cleanup_calls = 0

\* C9 witness: a run whose tab creation raised has returned, after one cleanup.
C9_Witness ==
    /\ pc = "Done"
    /\ cleanup_calls = 1
    /\ ~results.success
    /\ work_chunks # <<>>
    /\ wpc[1] = "idle"

\* C10: every run, in every scraper variant, has appended exactly one
\* ScrapingLog row when it returns, carrying the run's final counts and success
\* flag, and no row is written before cleanup.
C10_OneLogRow ==
    /\ pc = "Done"
       => /\ Len(scraping_logs) = 1
          /\ scraping_logs[1] = [total_scraped |-> results.total_scraped,
                                 new_records |-> results.new_records,
                                 errors |-> results.errors,
                                 success |-> results.success]
    /\ pc # "Done" => scraping_logs = <<>>

(***************************************************************************)
(* Claims on the storage upsert (SpecDb).                                  *)
(***************************************************************************)
\* C2: a save_* call that follows a committed save_* call of the same kind with
\* identical input leaves exactly one record of that key, with the scalar
\* field and both child collections as they were after the first call.
C2_UpsertIdempotent ==
    [][(/\ save_calls' = save_calls + 1
        /\ last_save # <<>>
        /\ last_save[1].ok
        /\ last_save'[1].kind = last_save[1].kind
        /\ last_save'[1].data = last_save[1].data)
       => LET kind == last_save[1].kind
              key == last_save[1].data.key
          IN /\ Cardinality(RowsOf(records', kind, key)) = 1
             /\ StoredView(records', line_items', documents', kind, key)
                  = StoredView(records, line_items, documents, kind, key)
             /\ Cardinality(records') = Cardinality(records)]_vars

\* C2 witness: an identical second call on a record with children has committed.
C2_Witness ==
    /\ last_save # <<>>
    /\ last_save[1].ok
    /\ last_save[1].existed
    /\ last_save[1].before = InputView(last_save[1].data)
    /\ last_save[1].data.line_items # <<>>
    /\ last_save[1].data.documents # <<>>

\* Every child row belongs to a stored record of its kind.
NoOrphans ==
    \A c \in line_items \cup documents :
        \E r \in records : r.kind = c.kind /\ r.id = c.parent

\* C3: after an upsert of an existing key commits, the stored line items and
\* documents of that record are exactly the input's collections, the scalar
\* field holds the input's value, and no child row is left orphaned.
C3_ChildReplacement ==
    (last_save # <<>> /\ last_save[1].ok /\ last_save[1].existed)
    => LET kind == last_save[1].kind
           data == last_save[1].data
       IN /\ Cardinality(RowsOf(records, kind, data.key)) = 1
          /\ StoredView(records, line_items, documents, kind, data.key) = InputView(data)
          /\ NoOrphans

\* C3 witness: an update that changed the scalar field and replaced a non-empty
\* set of line items by a different one.
C3_Witness ==
    /\ last_save # <<>>
    /\ last_save[1].ok
    /\ last_save[1].existed
    /\ last_save[1].before.line_items # {}
    /\ last_save[1].before.line_items # AsCollection(last_save[1].data.line_items)
    /\ last_save[1].before.title # last_save[1].data.title

(***************************************************************************)
(* Claims on _split_work (SpecSplit).                                      *)
(***************************************************************************)
Occurrences(cs, item) ==
    Cardinality({<<w, i>> \in (1..Len(cs)) \X (1..MaxItems + 1) :
                    i <= Len(cs[w]) /\ cs[w][i] = item})

RECURSIVE SumLen(_, _)
SumLen(cs, w) == IF w = 0 THEN 0 ELSE Len(cs[w]) + SumLen(cs, w - 1)

\* C4: _split_work returns N chunks, each of size floor(M/N) or ceil(M/N), and
\* every input item is in exactly one chunk exactly once.
C4_PartitionFairness ==
    chunks # <<>>
    => LET M == Len(items)
           N == num_chunks
       IN /\ Len(chunks) = N
          /\ \A w \in 1..N : Len(chunks[w]) \in {M \div N, (M + N - 1) \div N}
          /\ \A i \in 1..M : Occurrences(chunks, items[i]) = 1
          /\ SumLen(chunks, Len(chunks)) = M

\* C4 witness: an uneven split, 3 items over 2 chunks.
C4_Witness ==
    /\ chunks # <<>>
    /\ Len(items) = 3
    /\ num_chunks = 2
    /\ Len(chunks[1]) = 2
    /\ Len(chunks[2]) = 1

(***************************************************************************)
(* Claims on the success flag and the fatal paths (Spec).                  *)
(***************************************************************************)
\* The steps of run() out of which an exception reaches run()'s handler.
OrchestratorSteps == {"BrowserInit", "Authenticating", "Navigate", "Dedup", "Tabs"}

\* C11: in the scrapers built on the event loop and in the sequential scraper,
\* run() ends with success = false only through its exception handler, which
\* is entered only from an orchestrator step (browser launch, authentication,
\* initial navigation, dedup, tab creation); a run that scraped some records
\* and counted some errors returns success = true.
C11_SuccessFlag ==
    [][~Threaded(variant)
       => /\ (pc # "Cleanup" /\ pc' = "Cleanup" /\ ~results'.success) => pc = "Except"
          /\ (pc # "Except" /\ pc' = "Except") => pc \in OrchestratorSteps
          /\ (pc' = "Done" /\ results'.total_scraped > 0 /\ results'.errors > 0)
             => results'.success]_vars

\* C11 witness: a pooled run returned success = true with records scraped and
\* errors counted.
C11_Witness ==
    /\ pc = "Done"
    /\ ~Threaded(variant)
    /\ Pooled(variant)
    /\ results.success
    /\ results.total_scraped > 0
    /\ results.errors > 0

Returning == pc \in {"Cleanup", "LogSession", "Done"} /\ failed_at = ""

\* The run found nothing to scrape: a pooled run did not partition any work, the
\* sequential run skipped every candidate.
NothingToScrape ==
    IF Pooled(variant) THEN work_chunks = <<>>
    ELSE results.skipped = Len(bid_list)

\* C13: in every scraper variant, a run whose to-scrape set is empty (all
\* candidates already stored, or no candidates at all) opens no worker tab,
\* starts no worker, upserts nothing and returns success = true.
C13_NoOpShortCircuit ==
    (Returning /\ NothingToScrape)
    => /\ worker_tabs = 0
       /\ \A w \in Workers : wpc[w] = "idle"
       /\ save_calls = 0
       /\ results.success

(***************************************************************************)
(* Claims on the listing crawl (Spec).                                     *)
(***************************************************************************)
\* The listing crawl has returned.
CrawlReturned == crawl_log # <<>> /\ pc # "ListingCrawl"

RECURSIVE RowsOfLoaded(_, _)
\* The rows of the pages of the first n log entries that were extracted, in
\* the order of the log.
RowsOfLoaded(log, n) ==
    IF n = 0 THEN <<>>
    ELSE RowsOfLoaded(log, n - 1) \o (IF log[n][2] THEN PageRows(log[n][1]) ELSE <<>>)

\* The number of pages of the crawl: the caption's total, one page without it.
PagesToCrawl == IF total_pages > 1 THEN total_pages ELSE 1

\* C14: a listing page that fails to load or parse contributes no candidate
\* and does not stop the crawl: every page 1..N is requested, in order, and the
\* candidate list is the concatenation, in page order, of the rows of the
\* pages that loaded; no error reaches run().
C14_PageFailureRecovery ==
    /\ CrawlReturned
       => /\ Len(crawl_log) = PagesToCrawl
          /\ \A i \in 1..Len(crawl_log) : crawl_log[i][1] = i
          /\ bid_list = RowsOfLoaded(crawl_log, Len(crawl_log))
    /\ failed_at \notin {"ListingCrawl"}

\* C14 witness: a crawl over three pages whose second page failed returned the
\* rows of pages 1 and 3.
C14_Witness ==
    /\ CrawlReturned
    /\ Len(crawl_log) = 3
    /\ crawl_log[1][2] /\ ~crawl_log[2][2] /\ crawl_log[3][2]
    /\ bid_list = PageRows(1) \o PageRows(3)
    /\ PageRows(3) # <<>>

\* The positions of run() inside a per-record loop.
PerRecordLoop == {"Scraping", "SeqLoop", "SeqScrape", "SeqProcess"}

\* C16: exists(natural_key) is evaluated once per candidate, all lookups are
\* made before the first worker starts and before any upsert of the run, none
\* is made from inside a per-record loop, and a lookup leaves storage as it is.
C16_DedupGate ==
    [][/\ lookups' # lookups
          => /\ pc \notin PerRecordLoop
             /\ save_calls = 0
             /\ Tables' = Tables
       /\ (pc' \in PerRecordLoop /\ pc \notin PerRecordLoop /\ Pooled(variant))
          => lookups' = Len(bid_list)
       /\ (pc' = "Done" /\ results'.success) => lookups' = Len(bid_list)]_vars

SummaryKeys ==
    {"success", "total_scraped", "new_records", "skipped", "errors",
     "duration_seconds", "workers"}

\* C17: on every exit path of the run() of a pooled scraper (completion, no-op
\* early return, session failure) the returned summary holds success,
\* total_scraped, new_records, skipped, errors, duration_seconds and workers,
\* workers being the configured worker count and every counter a natural
\* number.
C17_SummaryShape ==
    (pc = "Done" /\ Pooled(variant))
    => /\ SummaryKeys \subseteq DOMAIN results
       /\ results.success \in BOOLEAN
       /\ results.workers = num_workers
       /\ \A k \in {"total_scraped", "new_records", "skipped", "errors",
                     "duration_seconds"} : results[k] \in Nat

\* C17 witness: a pooled run with two workers returned its summary after a
\* session failure.
C17_Witness ==
    /\ pc = "Done"
    /\ Pooled(variant)
    /\ failed_at = "Tabs"
    /\ num_workers = 2
    /\ results.workers = 2
    /\ results.skipped > 0
    /\ "duration_seconds" \in DOMAIN results

\* C19: while the workers scrape, each of the N workers has a page of its own,
\* the first worker's page is the session's main page, and exactly N-1 tabs
\* have been opened for the workers.
C19_TabExclusivity ==
    (Pooled(variant) /\ pc = "Scraping")
    => /\ \A w1 \in 1..num_workers, w2 \in 1..num_workers :
            w1 # w2 => WorkerPage(variant, w1) # WorkerPage(variant, w2)
       /\ \A w \in 1..num_workers : WorkerPage(variant, w) \in 0..worker_tabs
       /\ WorkerPage(variant, 1) = 0
       /\ worker_tabs = num_workers - 1

(***************************************************************************)
(* Claims on concurrent upserts (SpecTx).                                  *)
(***************************************************************************)
\* C18: two upserts of the same natural key never interleave: while a worker
\* is between the existence check and the commit of its upsert, no other
\* worker is inside an upsert of that key.
C18_UpsertAtomicity ==
    \A w1 \in Workers, w2 \in Workers :
        (w1 # w2 /\ InSave(w1) /\ InSave(w2)) => tx[w1][1].key # tx[w2][1].key

\* C18 witness: worker 2 is inside an upsert of the key worker 1 has just
\* upserted, and found the row worker 1 committed.
C18_Witness ==
    /\ tx[1] # <<>> /\ tx[1][1].stage = "committed"
    /\ InSave(2)
    /\ tx[2][1].key = tx[1][1].key
    /\ tx[2][1].existed
    /\ save_calls = 1

(***************************************************************************)
(* Claims on the scraper control of the API (SpecApi).                     *)
(***************************************************************************)
\* A stop request was accepted while task t was running, and t still runs.
StoppedButRunning(t) ==
    background_tasks[t].phase = "running" /\ background_tasks[t].stopped

\* C20: a stop request leaves the running task running (it ends only by its
\* own completion), and while a task that received a stop request is still
\* running, no further task is scheduled.
C20_StopSemantics ==
    [][/\ \A t \in Tasks :
            background_tasks[t].phase = "running"
            => \/ background_tasks'[t].phase = "running"
               \/ /\ background_tasks'[t].phase = "done"
                  /\ scraper_status'.current_progress \in {"Completed", "Failed"}
       /\ (\E u \in Tasks : StoppedButRunning(u))
          => \A t \in Tasks :
                background_tasks[t].phase = "none" => background_tasks'[t].phase = "none"
      ]_vars

(***************************************************************************)
(* Claims on the crawl of scrape_all_awarded.py (SpecBulk).                *)
(***************************************************************************)
\* C15: when the page count cannot be read on the first listing page, the
\* crawl requests no further listing page and ends after page 1 without an
\* error -- for the crawl of scrape_all_awarded.py as for the others.
C15_SinglePageWithoutCaption ==
    caption = "absent"
    => /\ \A i \in 1..Len(crawl_log) : crawl_log[i][1] = 1
       /\ Len(crawl_log) <= 1
       /\ failed_at \notin {"ListingCrawl", "BulkCrawl"}

(***************************************************************************)
(* Claims on the listing extractors (SpecExtract).                         *)
(***************************************************************************)
\* The column that holds the title in the table the extractor reads.
TitleColumn(fn) == CHOOSE c \in 1..3 : ListingColumns(fn)[c] = "title"

\* The rows of the page that have their key cell with its link, in row order.
RowsWithKey(rows) ==
    SelectSeq([i \in 1..Len(rows) |-> i],
              LAMBDA i : 1 \in rows[i].present /\ rows[i].link)

\* C21: the extractor emits one summary per row that has its link/key cell, in
\* row order, and drops the other rows; the title of a summary is the text of
\* the row's title cell, and null when the row has no title cell.
C21_ListingExtraction ==
    call.ret # <<>>
    => LET kept == RowsWithKey(call.rows)
       IN call.ret[1] =
            [k \in 1..Len(kept) |->
                [key |-> CellText(call.fn, kept[k], 1),
                 title |-> IF TitleColumn(call.fn) \in call.rows[kept[k]].present
                           THEN CellText(call.fn, kept[k], TitleColumn(call.fn))
                           ELSE None]]

(***************************************************************************)
(* Claims on random_delay (SpecDelay).                                     *)
(***************************************************************************)
\* C22: for min_seconds <= max_seconds the delay returned by random_delay lies
\* in [min_seconds, max_seconds], whatever the normal draw was.
C22_DelayBounds ==
    (call.ret # <<>> /\ call.min_seconds <= call.max_seconds)
    => /\ call.min_seconds <= call.ret[1].delay
       /\ call.ret[1].delay <= call.max_seconds

\* C22 witness: a draw below a proper range was clamped to its lower end.
C22_Witness ==
    /\ call.ret # <<>>
    /\ call.min_seconds < call.max_seconds
    /\ call.ret[1].draw < call.min_seconds
    /\ call.ret[1].delay = call.min_seconds

(***************************************************************************)
(* Claims on _build_pagination_url (SpecUrl).                              *)
(***************************************************************************)
\* The values the query string gives for a parameter name.
ValuesOf(params, name) == {params[i].value : i \in {j \in 1..Len(params) : params[j].name = name}}

FilterNames == {Filters[i] : i \in 1..Len(Filters)}

\* C23: the URL built for page p carries page = p and the sort direction, and
\* carries each of the four filter parameters if and only if that filter is
\* configured non-empty (then with its value); no other parameter is added
\* and none twice.
C23_PaginationUrl ==
    call.ret # <<>>
    => LET params == call.ret[1]
       IN /\ ValuesOf(params, "page") = {ToString(call.page_num)}
          /\ Cardinality(ValuesOf(params, "direction")) = 1
          /\ \A f \in FilterNames :
                /\ ValuesOf(params, ParamName(f)) # {} <=> call.settings[f] # ""
                /\ ValuesOf(params, ParamName(f)) \subseteq {QuotePlus(call.settings[f])}
          /\ \A i \in 1..Len(params) :
                params[i].name \in {"page", "direction"} \cup {ParamName(f) : f \in FilterNames}
          /\ \A i \in 1..Len(params), j \in 1..Len(params) :
                params[i].name = params[j].name => i = j

\* C23 witness: a URL for a later page with one filter configured and another
\* one left empty.
C23_Witness ==
    /\ call.ret # <<>>
    /\ call.page_num > 1
    /\ call.settings["FILTER_CLASSIFICATION"] # ""
    /\ call.settings["FILTER_PUBLISH_DATE_FROM"] = ""
    /\ Len(call.ret[1]) = 3

(***************************************************************************)
(* Claims on _parse_date (SpecDate).                                       *)
(***************************************************************************)
\* 2025-11-13T00:00:00
MidnightNov13 == [year |-> 2025, month |-> 11, day |-> 13, hour |-> 0, minute |-> 0]

\* C24: _parse_date returns the result of the first format, in the fixed
\* order, that matches the stripped string; '13-Nov-2025 12:00 AM' and
\* '13-Nov-2025' both yield 2025-11-13T00:00:00; a null, empty or unrecognized
\* string yields null; the call always returns.
C24_DateParsing ==
    call.ret # <<>>
    => LET s == call.date_string
           parsed == call.ret[1]
           matching == {i \in 1..Len(Formats) : Strptime(Strip(s), Formats[i]) # <<>>}
       IN /\ (/\ s.layout = "%d-%b-%Y %I:%M %p" /\ s.day = 13
              /\ s.hour = 12 /\ s.minute = 0 /\ s.meridiem = "AM")
             => parsed = <<MidnightNov13>>
          /\ (s.layout = "%d-%b-%Y" /\ s.day = 13) => parsed = <<MidnightNov13>>
          /\ s.layout \in {None, "", "text"} => parsed = <<>>
          /\ matching = {} => parsed = <<>>
          /\ matching # {}
             => \E i \in matching :
                   /\ \A j \in matching : i <= j
                   /\ parsed = Strptime(Strip(s), Formats[i])

\* C24 witness: '13-Nov-2025 12:00 AM', padded with blanks, was parsed.
C24_Witness ==
    /\ call.ret # <<>>
    /\ call.date_string.layout = "%d-%b-%Y %I:%M %p"
    /\ call.date_string.hour = 12
    /\ call.date_string.meridiem = "AM"
    /\ call.date_string.padded
    /\ call.ret[1] # <<>>

(***************************************************************************)
(* Claims on the order of the partition (SpecSplit).                       *)
(***************************************************************************)
\* The number of input positions 0..m-1 that are congruent to r modulo n.
CountOf(m, n, r) == Cardinality({i \in 0..(m - 1) : i % n = r})

\* C25: _split_work places the item at input index i (from 0) into chunk
\* i mod N and keeps the input's order inside each chunk: chunk r holds the
\* items at indices r, r + N, r + 2N, ...; 5 items over 2 workers give
\* [0,2,4] and [1,3].
C25_RoundRobin ==
    chunks # <<>>
    => LET M == Len(items)
           N == num_chunks
       IN /\ Len(chunks) = N
          /\ \A r \in 0..(N - 1) :
                chunks[r + 1] = [k \in 1..CountOf(M, N, r) |-> items[(k - 1) * N + r + 1]]
          /\ (M = 5 /\ N = 2)
             => /\ chunks[1] = <<items[1], items[3], items[5]>>
                /\ chunks[2] = <<items[2], items[4]>>

\* C25 witness: 5 items were split over 2 workers.
C25_Witness ==
    /\ chunks # <<>>
    /\ Len(items) = 5
    /\ num_chunks = 2
    /\ Len(chunks[1]) = 3
    /\ chunks[2] = <<items[2], items[4]>>

(***************************************************************************)
(* Claims on the order of a worker's steps (Spec).                         *)
(***************************************************************************)
\* C26: in the pooled scrapers a worker takes its items one at a time in list
\* order; for each item the upsert comes after the page was fetched, parsed
\* and its key validated; and the worker passes to its next item only through
\* the inter-request delay, also when the item failed.
C26_WorkerStepOrder ==
    [][(Pooled(variant) /\ pc = "Scraping")
       => \A w \in Workers :
            /\ widx'[w] \in {widx[w], widx[w] + 1}
            /\ wpc'[w] = "process" => wpc[w] \in {"loop", "process"}
            /\ (Tables' # Tables /\ wpc'[w] # wpc[w])
               => /\ wpc[w] = "process"
                  /\ bid_data[w] # <<>>
                  /\ ValidatesKey(variant) => bid_data[w][1].key # NullKey
            /\ widx'[w] = widx[w] + 1 => wpc[w] = "delay"]_vars

(***************************************************************************)
(* Claims on the order of the listing crawl (Spec).                        *)
(***************************************************************************)
\* Dedup, partitioning or a worker has begun.
PastCrawl ==
    \/ pc \in {"Dedup", "Partition", "Tabs", "Scraping", "SeqLoop", "SeqScrape", "SeqProcess"}
    \/ lookups > 0
    \/ worker_tabs > 0
    \/ \E w \in Workers : wpc[w] # "idle"

\* C27: the listing pages are requested in strictly ascending order 1, 2, ...,
\* N (N from the caption of page 1, one page without it), each at most once
\* and before any worker tab exists, and all of them have been requested when
\* dedup, partitioning or a worker begins.
C27_SequentialCrawl ==
    /\ \A i \in 1..Len(crawl_log) : crawl_log[i][1] = i
    /\ crawl_log # <<>> => Len(crawl_log) <= PagesToCrawl
    /\ pc = "ListingCrawl" => ~PastCrawl
    /\ PastCrawl => Len(crawl_log) = PagesToCrawl

\* C27 witness: dedup is about to begin after a crawl of three pages.
C27_Witness ==
    /\ pc = "Dedup"
    /\ lookups = 0
    /\ Len(crawl_log) = 3
    /\ total_pages = 3
    /\ \A i \in 1..3 : crawl_log[i] = <<i, TRUE>>

(***************************************************************************)
(* Claims on the release of the browser resources (Spec).                  *)
(***************************************************************************)
\* C28: once _cleanup has returned, the resources the run had acquired (main
\* page, context, browser, automation driver) have been closed, also when the
\* close of an earlier one raised: at most the one whose own close raised is
\* still open; _cleanup returns in every case.
C28_UnconditionalRelease ==
    (cleanup_calls > 0 /\ pc \in {"LogSession", "Done"})
    => /\ Cardinality(acquired) <= 1
       /\ failed_at # "Cleanup"

(***************************************************************************)
(* Claims on parse_document_links (SpecDocuments).                         *)
(***************************************************************************)
\* The documents of the links of the page that satisfy Test, in page order.
DocumentsBy(Test(_), links) ==
    LET found == SelectSeq(links, Test)
    IN [i \in 1..Len(found) |-> Document(found[i])]

KeyOf(kind, record) ==
    IF kind = "bid" THEN record.reference_number ELSE record.award_notice_number

\* C30: for every detail page, whichever labels and sections it has, the
\* parser returns a record; a field whose label is absent is null or its
\* default; and the natural key is null exactly when its label is absent or
\* carries no number.
C30_ParserTotality ==
    call.ret # <<>>
    => LET page == call.page
           record == call.ret[1]
       IN /\ page.budget = "absent" => record.approved_budget = <<>>
          /\ page.line_item_rows = 0 => record.line_items = <<>>
          /\ (page.kind = "bid" /\ page.status = "absent") => record.status = "Published"
          /\ (page.kind = "bid" /\ page.title = "absent") => record.title = None
          /\ (page.kind = "award" /\ page.title = "absent") => record.award_title = None
          /\ KeyOf(page.kind, record) = None <=> page.key_label \in {"absent", " :"}

(***************************************************************************)
(* Claims on retry_on_failure (SpecRetry).                                 *)
(***************************************************************************)
RECURSIVE Pow(_, _)
Pow(b, k) == IF k = 0 THEN 1 ELSE b * Pow(b, k - 1)

RaisedCalls == {k \in 1..Len(call.outcomes) : call.outcomes[k] = "raise"}

\* C31: the wrapped function is called at most max_retries + 1 times; the
\* wrapper returns the result of the first call that does not raise and no
\* call follows it; when all max_retries + 1 calls raise, it re-raises the
\* exception of the last call; the wait before retry k is
\* delay * backoff^(k-1), and no wait follows the final failed attempt.
C31_RetryContract ==
    /\ Len(call.outcomes) <= call.max_retries + 1
    /\ \A k \in 1..Len(call.outcomes) :
         call.outcomes[k] = "return" =>
            /\ k = Len(call.outcomes)
            /\ call.ret = <<[kind |-> "return", value |-> k]>>
    /\ (call.ret # <<>> /\ call.ret[1].kind = "return") =>
          call.outcomes[Len(call.outcomes)] = "return"
    /\ (call.ret # <<>> /\ call.ret[1].kind = "raise") =>
          /\ Len(call.outcomes) = call.max_retries + 1
          /\ RaisedCalls = 1..(call.max_retries + 1)
          /\ call.ret[1].value = call.max_retries + 1
    /\ Len(call.waits) = Min(Cardinality(RaisedCalls), call.max_retries)
    /\ \A k \in 1..Len(call.waits) :
         call.waits[k] = call.delay * Pow(call.backoff, k - 1)

\* Every call raised, with two retries and a backoff above one.
C31_Witness ==
    /\ call.ret # <<>>
    /\ call.ret[1].kind = "raise"
    /\ call.max_retries >= 2
    /\ call.backoff >= 2
    /\ Len(call.waits) = call.max_retries


(***************************************************************************)
(* Claims on the retries of the sequential scraper (Spec).                 *)
(***************************************************************************)
\* C32: in the sequential scraper, a record whose detail page could not be
\* navigated to is given up only after the navigation was attempted again,
\* up to DetailRetries retries: DetailRetries + 1 navigations in all.
C32_NavigationRetried ==
    (variant = "sequential" /\ pc = "SeqProcess" /\ bid_data[1] = <<>>)
        => navigations = DetailRetries + 1


(***************************************************************************)
(* Claims on the natural keys in storage (SpecTx).                         *)
(***************************************************************************)
\* C33: in every storage state reached by the workers' interleaved upserts
\* there is at most one record per kind and natural key (reference_number
\* of a bid notice, award_notice_number of an awarded contract), and no
\* stored record has a null natural key.
C33_KeyUniqueness ==
    /\ \A r1 \in records, r2 \in records :
         (r1.kind = r2.kind /\ r1.key = r2.key) => r1 = r2
    /\ \A r \in records : r.key # NullKey

\* C33 witness: both workers have committed an upsert of one key, and a
\* single record holds it.
C33_Witness ==
    /\ tx[1] # <<>> /\ tx[1][1].stage = "committed"
    /\ tx[2] # <<>> /\ tx[2][1].stage = "committed"
    /\ tx[1][1].key = tx[2][1].key
    /\ Cardinality(RowsOf(records, KindOf(variant), tx[1][1].key)) = 1


(***************************************************************************)
(* Claims on the counters of the workers (Spec).                           *)
(***************************************************************************)
\* C34: when a worker of the public scraper returns, the items it counted
\* as scraped and those it counted as errors add up to the items it was
\* assigned.
C34_WorkerAccounting ==
    \A w \in Workers :
        (variant = "public" /\ pc = "Scraping" /\ wpc[w] = "done")
            => result[w].scraped + result[w].errors = Len(work_chunks[w])


\* C35: a worker of the public scraper increments new_records for an item
\* only in a step whose upsert inserted a record: a record of a natural key
\* that was not in storage immediately before.
C35_NewRecordsAreNew ==
    [][\A w \in Workers :
          (variant = "public" /\ result'[w].new_records > result[w].new_records)
              => \E r \in records' :
                    /\ r.kind = KindOf(variant)
                    /\ ~Exists(records, r.kind, r.key)]_vars


\* The background tasks whose scraper run is in progress.
RunsInProgress == {t \in Tasks : background_tasks[t].phase = "running"}

\* C36: under any interleaving of run requests, stop requests and
\* background tasks, at most one scraper run is in progress, and the running
\* flag of the status record is set whenever a run is in progress.
C36_SingleActiveRun ==
    /\ Cardinality(RunsInProgress) <= 1
    /\ RunsInProgress # {} => scraper_status.running


\* C37: when a worker of the public scraper counts an item as scraped, a
\* record is stored under the key of the listing summary the item was
\* scheduled from, so that a later run finds it and skips the item.
C37_ScrapedIsStored ==
    [][\A w \in Workers :
          (variant = "public" /\ result'[w].scraped > result[w].scraped)
              => Exists(records', KindOf(variant), work_chunks[w][widx[w]])]_vars


(***************************************************************************)
(* Claims on the listing page requests of a crawl (SpecPages).             *)
(***************************************************************************)
\* The filter parameters a request carries.
FilterPart(query) ==
    SelectSeq(query, LAMBDA pair : pair.name \notin {"page", "direction"})

\* C38: every listing page request of a crawl of the public scraper, the
\* one of page 1 included, carries the parameters of the configured filters.
C38_UniformFiltering ==
    \A k \in 1..Len(call.requests) :
        FilterPart(call.requests[k]) = FilterParams(call.settings, 1)


(***************************************************************************)
(* Claims on the settings override of a run (SpecSettings).                *)
(***************************************************************************)
\* C39: when a call of _run_scraper_async is over, by a return or by an
\* exception, every global setting has the value it had before the call,
\* whichever settings the request overrode (one call at a time).
C39_SettingsRestored ==
    call.ret # <<>> => call.settings = call.before

\* C39 witness: the run raised after the request had overridden a filter
\* and the retries, and the two settings are back at different values.
C39_Witness ==
    /\ call.ret = <<"raise">>
    /\ {"FILTER_CLASSIFICATION", "MAX_RETRIES"} \subseteq DOMAIN call.original_values
    /\ call.settings["FILTER_CLASSIFICATION"] = "env"
    /\ call.settings["MAX_RETRIES"] = "local"


(***************************************************************************)
(* Claims on the termination of a run (SpecLive).                          *)
(***************************************************************************)
\* C40: every run() eventually reaches its terminal state, with the summary
\* it returns complete: the crawl, the single pass of each worker over its
\* list and the fan-in all come to an end.
C40_RunTerminates ==
    <>(pc = "Done" /\ "duration_seconds" \in DOMAIN results)

\* C40 witness: a run of the public scraper with two workers is over, one
\* worker having returned after a pass over two items, the other having
\* raised, after a crawl of more than one page.
C40_Witness ==
    /\ pc = "Done"
    /\ variant = "public"
    /\ num_workers = 2
    /\ \E w \in Workers : wpc[w] = "done" /\ widx[w] = 3
    /\ \E w \in Workers : wpc[w] = "raised"
    /\ Len(crawl_log) > 1


====
